---------------------------- MODULE Spec2Model ----------------------------
(***************************************************************************)
(* Barber-shop booking backend: the Express handlers of src/server.js and  *)
(* of the two server programs in src/unnamed/part_000, over the four       *)
(* tables of the relational store (services, holidays, bookings) and the   *)
(* WhatsApp notification helper.                                           *)
(*                                                                         *)
(* A JavaScript string is a sequence of one-character strings, so that     *)
(* template composition, split, substring, LIKE and the digit filter are   *)
(* computed as the code computes them.                                     *)
(*                                                                         *)
(* Every await of a handler is one step: a storage statement is atomic in  *)
(* the store, the handler's continuation runs in a later step, and the     *)
(* steps of concurrent requests interleave.                                *)
(***************************************************************************)
EXTENDS Integers, Sequences, FiniteSets, TLC

VARIABLES
    build,          \* which server program runs: "server", "partA", "partB"
    env,            \* process.env: ownerPhone, metaPhoneId, adminUser, adminPass
    clock,          \* new Date(): the local and the UTC calendar date
    services,       \* table services: set of rows [id, name, price]
    nextServiceId,  \* serial of services.id
    holidays,       \* table holidays: set of rows [id, date, status, note]
    nextHolidayId,  \* serial of holidays.id
    bookings,       \* table bookings: sequence of rows, id = index
    inflight,       \* the request running on each connection, if any
    answered,       \* the request answered in the last step, with its response
    prev            \* the request answered before and the bookings it left,
                    \* in the runs that record them

vars == <<build, env, clock, services, nextServiceId, holidays, nextHolidayId,
          bookings, inflight, answered, prev>>

store == <<services, nextServiceId, holidays, nextHolidayId, bookings>>
config == <<build, env, clock>>

-----------------------------------------------------------------------------
(* Bounds of the model *)

MaxInflight == 2
MaxBookings == 2
MaxHolidays == 1
MaxServices == 2

-----------------------------------------------------------------------------
(* Strings *)

S_at == <<" ", "a", "t", " ">>
S_NA == <<"N", "/", "A">>
S_91 == <<"9", "1">>
S_dash == <<"-">>
S_undefined == <<"u", "n", "d", "e", "f", "i", "n", "e", "d">>
SentinelPhone == <<"0", "0", "0", "0", "0", "0", "0", "0", "0", "0">>

DigitChars == <<"0", "1", "2", "3", "4", "5", "6", "7", "8", "9">>
IsDigit(c) == \E i \in 1..10 : DigitChars[i] = c

\* Number -> decimal string, as JS string concatenation renders a
\* non-negative integer.
RECURSIVE NumToStr(_)
NumToStr(n) ==
    IF n < 10 THEN <<DigitChars[n + 1]>>
    ELSE NumToStr(n \div 10) \o <<DigitChars[(n % 10) + 1]>>

\* s.substring(0, n)
Substring0(s, n) == SubSeq(s, 1, IF Len(s) < n THEN Len(s) ELSE n)

\* s.slice(-2)
SliceLast2(s) == IF Len(s) <= 2 THEN s ELSE SubSeq(s, Len(s) - 1, Len(s))

\* s starts with p at position i
MatchAt(s, p, i) ==
    /\ i + Len(p) - 1 <= Len(s)
    /\ \A k \in 1..Len(p) : s[i + k - 1] = p[k]

\* s.indexOf(p) from position i on (1-based); 0 when absent
RECURSIVE IndexFrom(_, _, _)
IndexFrom(s, p, i) ==
    IF i + Len(p) - 1 > Len(s) THEN 0
    ELSE IF MatchAt(s, p, i) THEN i
    ELSE IndexFrom(s, p, i + 1)

\* s.split(sep): the sequence of pieces
RECURSIVE Split(_, _)
Split(s, sep) ==
    LET i == IndexFrom(s, sep, 1)
    IN  IF i = 0 THEN <<s>>
        ELSE <<SubSeq(s, 1, i - 1)>> \o Split(SubSeq(s, i + Len(sep), Len(s)), sep)

\* SQL: s LIKE p, with % (any run) and _ (any one character)
RECURSIVE Like(_, _)
Like(s, p) ==
    IF p = <<>> THEN s = <<>>
    ELSE IF Head(p) = "%"
         THEN \/ Like(s, Tail(p))
              \/ (s # <<>> /\ Like(Tail(s), p))
    ELSE /\ s # <<>>
         /\ (Head(p) = "_" \/ Head(p) = Head(s))
         /\ Like(Tail(s), Tail(p))

-----------------------------------------------------------------------------
(* Values of the requests *)

N_Asha == <<"A", "s", "h", "a">>
N_Ravi == <<"R", "a", "v", "i">>
P_Asha == <<"9", "9", "9", "8", "8", "8", "7", "7", "7", "7">>
P_Ravi == <<"+", "9", "1", " ", "9", "8", "7", "6", "5", "4", "3", "2", "1", "0">>
P_Owner == <<"9", "1", "9", "0", "0", "0", "0", "1", "2", "3", "4", "5">>
Sv_Haircut == <<"H", "a", "i", "r", "c", "u", "t">>
Sv_Shave == <<"S", "h", "a", "v", "e">>
D_Jun01 == <<"2", "0", "2", "4", "-", "0", "6", "-", "0", "1">>
D_Dec25 == <<"2", "0", "2", "4", "-", "1", "2", "-", "2", "5">>
T_1000 == <<"1", "0", ":", "0", "0">>
T_1100 == <<"1", "1", ":", "0", "0">>
Note_Festival == <<"F", "e", "s", "t", "i", "v", "a", "l">>
AdminPanelUrl == <<"a", "d", "m", "i", "n">>
U_admin == <<"a", "d", "m", "i", "n">>
U_guest == <<"g", "u", "e", "s", "t">>
W_secret == <<"s", "3", "c", "r", "3", "t">>
W_wrong == <<"w", "r", "o", "n", "g">>

\* A value that is a string or undefined (a field the request leaves out, a
\* variable the environment does not set).
Undefined == [undef |-> TRUE, text |-> <<>>]
Str(text) == [undef |-> FALSE, text |-> text]

Builds == {"server", "partA", "partB"}
BookingStatuses == {"Pending", "Confirmed", "Declined", "Completed", "No-Show"}

-----------------------------------------------------------------------------
(* Requests in flight *)

Conns == 1..MaxInflight

NoBody == [none |-> TRUE]
NoResp == [code |-> 0]
NoLoc == [none |-> TRUE]

Idle == [kind |-> "idle", pc |-> "idle", body |-> NoBody, resp |-> NoResp,
         calls |-> <<>>, posts |-> <<>>, loc |-> NoLoc]

NoPrev == [req |-> Idle, bookings |-> <<>>]

\* A connection can take a request when none is running on it.
Free(c) == inflight[c] = Idle

Request(kind, pc, body, loc) ==
    [kind |-> kind, pc |-> pc, body |-> body, resp |-> NoResp,
     calls |-> <<>>, posts |-> <<>>, loc |-> loc]

\* res.status(code).json(payload): the request is answered.
Respond(r, payload) == [r EXCEPT !.pc = "done", !.resp = payload]

\* The request on connection c moves on to r: it keeps running, or it has
\* been answered and leaves the connection.
Continue(c, r) ==
    IF r.pc = "done"
    THEN /\ inflight' = [inflight EXCEPT ![c] = Idle]
         /\ answered' = r
    ELSE /\ inflight' = [inflight EXCEPT ![c] = r]
         /\ answered' = Idle

-----------------------------------------------------------------------------
(* The notification helper *)

\* to.toString().replace(/\D/g, ''), and in part_000's first program a
\* 10-digit number gets the country code.
formattedNum(to) ==
    LET digits == SelectSeq(to, IsDigit)
    IN  IF build = "partA" /\ Len(digits) = 10 THEN S_91 \o digits ELSE digits

\* sendWhatsApp(to, body): the axios.post calls it makes (none when the
\* destination or META_PHONE_ID is missing); ok is the outcome of the post,
\* a failure being caught and logged inside the helper.
sendWhatsApp(to, body, ok) ==
    IF to = <<>> \/ ~env.metaPhoneId THEN <<>>
    ELSE <<[to |-> formattedNum(to), body |-> body, ok |-> ok]>>

\* await sendWhatsApp(to, body) in a handler: the invocation and its posts.
Notify(r, to, body, ok) ==
    [r EXCEPT !.calls = Append(@, [to |-> to, body |-> body]),
              !.posts = @ \o sendWhatsApp(to, body, ok)]

Message(tpl, args) == [tpl |-> tpl, args |-> args]

-----------------------------------------------------------------------------
(* Storage queries *)

\* `${date} at ${time}`
dateTime(date, time) == date \o S_at \o time

\* The lookup with the status literal in another case: it matches no row.
ClosedHolidayRowsLowerCase(date) ==
    {h \in holidays : h.date = date /\ h.status = "closed"}

\* SELECT * FROM holidays WHERE date = $1 AND status = 'Closed'
ClosedHolidayRows(date) ==
    {h \in holidays : h.date = date /\ h.status = "Closed"}

\* SELECT price FROM services WHERE name = $1
ServicePriceRows(name) == {s \in services : s.name = name}

\* rows[0]?.price || 'N/A', as the template renders it
PriceText(rows) ==
    IF rows = {} THEN S_NA
    ELSE LET p == (CHOOSE s \in rows : TRUE).price
         IN  IF p = 0 THEN S_NA ELSE NumToStr(p)

BookingRow(name, phone, service, dt, status, type) ==
    [shop_id |-> 1, customer_name |-> name, customer_phone |-> phone,
     service_name |-> service, date_time |-> dt, status |-> status, type |-> type]

\* An online booking inserted as already confirmed.
OnlineInitialConfirmed == [status |-> "Confirmed", type |-> "Online"]

\* VALUES (..., 'Pending', 'Online') of POST /api/bookings
OnlineInitial == [status |-> "Pending", type |-> "Online"]

\* VALUES ($1, $2, '0000000000', $3, $4, 'Confirmed', 'Walk-in') of
\* POST /api/admin/walkin
WalkinInitial == [phone |-> SentinelPhone, status |-> "Confirmed", type |-> "Walk-in"]

\* Requests that passed their checks and have their INSERT still to come.
PendingInserts ==
    Cardinality({c \in Conns : inflight[c].kind = "create"
                               /\ inflight[c].pc \in {"price", "insert"}})

CanInsert == Len(bookings) + PendingInserts < MaxBookings

ErrorText ==
    CASE build = "server" -> "Database error"
      [] build = "partA" -> "Server Error"
      [] build = "partB" -> "DB Error"

-----------------------------------------------------------------------------
(* POST /api/bookings *)

\* The owner message of each program, by the values it interpolates.
ownerMsg(b, price) ==
    CASE build = "server" ->
           Message("NewBooking", <<b.name, b.phone, b.service,
                                   dateTime(b.date, b.time), AdminPanelUrl>>)
      [] build = "partA" ->
           Message("NewBooking", <<b.name, b.phone, b.service, price,
                                   dateTime(b.date, b.time), AdminPanelUrl>>)
      [] build = "partB" ->
           Message("NewBooking", <<b.name, dateTime(b.date, b.time), AdminPanelUrl>>)

\* The handler without its holiday lookup.
PostBookingsUnchecked(c, b, fault) ==
    /\ Free(c)
    /\ CanInsert
    /\ LET r == Request("create", "holiday", b, [price |-> S_NA, id |-> 0])
       IN  Continue(c,
             IF fault THEN Respond(r, [code |-> 500, error |-> ErrorText])
             ELSE [r EXCEPT !.pc = IF build = "partA" THEN "price" ELSE "insert"])
    /\ UNCHANGED <<store, config>>

\* The request arrives and its holiday lookup runs.
PostBookings(c, b, fault) ==
    /\ Free(c)
    /\ CanInsert
    /\ LET r == Request("create", "holiday", b, [price |-> S_NA, id |-> 0])
       IN  Continue(c,
             IF fault THEN Respond(r, [code |-> 500, error |-> ErrorText])
             ELSE IF ClosedHolidayRows(b.date) # {}
                  THEN Respond(r, [code |-> 400, error |-> "Shop is closed on",
                                   date |-> b.date])
             ELSE [r EXCEPT !.pc = IF build = "partA" THEN "price" ELSE "insert"])
    /\ UNCHANGED <<store, config>>

\* part_000's first program fetches the price for the message.
PostBookingsPrice(c, fault) ==
    /\ inflight[c].kind = "create"
    /\ inflight[c].pc = "price"
    /\ LET r == inflight[c]
       IN  Continue(c,
             IF fault THEN Respond(r, [code |-> 500, error |-> ErrorText])
             ELSE [r EXCEPT !.pc = "insert",
                            !.loc.price = PriceText(ServicePriceRows(r.body.service))])
    /\ UNCHANGED <<store, config>>

\* INSERT INTO bookings ... 'Pending', 'Online' RETURNING id
\* The insert refusing a date and time that a booking which is not Declined
\* holds already.
PostBookingsInsertExclusive(c, fault) ==
    /\ inflight[c].kind = "create"
    /\ inflight[c].pc = "insert"
    /\ LET r == inflight[c]
           b == r.body
           id == Len(bookings) + 1
           taken == \E i \in 1..Len(bookings) :
                        /\ bookings[i].date_time = dateTime(b.date, b.time)
                        /\ bookings[i].status # "Declined"
       IN  IF fault \/ taken
           THEN /\ Continue(c, Respond(r, IF fault
                                          THEN [code |-> 500, error |-> ErrorText]
                                          ELSE [code |-> 409, error |-> "Slot taken"]))
                /\ UNCHANGED bookings
           ELSE /\ bookings' = Append(bookings,
                      BookingRow(b.name, b.phone, b.service,
                                 dateTime(b.date, b.time),
                                 OnlineInitial.status, OnlineInitial.type))
                /\ Continue(c,
                      IF env.ownerPhone # <<>>
                      THEN [r EXCEPT !.pc = "notify", !.loc.id = id]
                      ELSE Respond([r EXCEPT !.loc.id = id],
                                   [code |-> 200, message |-> "Booking sent!",
                                    id |-> id]))
    /\ UNCHANGED <<services, nextServiceId, holidays, nextHolidayId, config>>

PostBookingsInsert(c, fault) ==
    /\ inflight[c].kind = "create"
    /\ inflight[c].pc = "insert"
    /\ LET r == inflight[c]
           b == r.body
           id == Len(bookings) + 1
       IN  IF fault
           THEN /\ Continue(c, Respond(r, [code |-> 500, error |-> ErrorText]))
                /\ UNCHANGED bookings
           ELSE /\ bookings' = Append(bookings,
                      BookingRow(b.name, b.phone, b.service,
                                 dateTime(b.date, b.time),
                                 OnlineInitial.status, OnlineInitial.type))
                /\ Continue(c,
                      IF env.ownerPhone # <<>>
                      THEN [r EXCEPT !.pc = "notify", !.loc.id = id]
                      ELSE Respond([r EXCEPT !.loc.id = id],
                                   [code |-> 200, message |-> "Booking sent!",
                                    id |-> id]))
    /\ UNCHANGED <<services, nextServiceId, holidays, nextHolidayId, config>>

\* The owner notification sent again when the post failed.
PostBookingsNotifyRetry(c, ok) ==
    /\ inflight[c].kind = "create"
    /\ inflight[c].pc = "notify"
    /\ LET r == inflight[c]
           msg == ownerMsg(r.body, r.loc.price)
           once == Notify(r, env.ownerPhone, msg, ok)
       IN  Continue(c,
             Respond(IF ok THEN once ELSE Notify(once, env.ownerPhone, msg, TRUE),
                     [code |-> 200, message |-> "Booking sent!", id |-> r.loc.id]))
    /\ UNCHANGED <<store, config>>

\* await sendWhatsApp(OWNER_PHONE_NUMBER, ownerMsg), then the answer.
PostBookingsNotify(c, ok) ==
    /\ inflight[c].kind = "create"
    /\ inflight[c].pc = "notify"
    /\ LET r == inflight[c]
       IN  Continue(c,
             Respond(Notify(r, env.ownerPhone, ownerMsg(r.body, r.loc.price), ok),
                     [code |-> 200, message |-> "Booking sent!", id |-> r.loc.id]))
    /\ UNCHANGED <<store, config>>

-----------------------------------------------------------------------------
(* POST /api/admin/walkin *)

\* z = n => ('0' + n).slice(-2)
z(n) == SliceLast2(<<"0">> \o NumToStr(n))

\* getFullYear() + '-' + z(getMonth()+1) + '-' + z(getDate())
getLocalISODate(d) == NumToStr(d.y) \o S_dash \o z(d.m) \o S_dash \o z(d.d)

\* The walk-in handler alerting the owner as booking creation does.
PostAdminWalkinAlerting(c, b, fault) ==
    /\ Free(c)
    /\ CanInsert
    /\ LET r == Request("walkin", "insert", b, NoLoc)
           todayStr == getLocalISODate(clock.local)
       IN  IF fault
           THEN /\ Continue(c, Respond(r, [code |-> 500, error |-> "err.message"]))
                /\ UNCHANGED bookings
           ELSE /\ bookings' = Append(bookings,
                      BookingRow(b.name, WalkinInitial.phone, b.service,
                                 dateTime(todayStr, b.time),
                                 WalkinInitial.status, WalkinInitial.type))
                /\ Continue(c,
                      Respond(Notify(r, env.ownerPhone,
                                     Message("NewBooking", <<b.name>>), TRUE),
                              [code |-> 200, message |-> "Walk-in added"]))
    /\ UNCHANGED <<services, nextServiceId, holidays, nextHolidayId, config>>

PostAdminWalkin(c, b, fault) ==
    /\ Free(c)
    /\ CanInsert
    /\ LET r == Request("walkin", "insert", b, NoLoc)
           todayStr == getLocalISODate(clock.local)
       IN  IF fault
           THEN /\ Continue(c, Respond(r, [code |-> 500, error |-> "err.message"]))
                /\ UNCHANGED bookings
           ELSE /\ bookings' = Append(bookings,
                      BookingRow(b.name, WalkinInitial.phone, b.service,
                                 dateTime(todayStr, b.time),
                                 WalkinInitial.status, WalkinInitial.type))
                /\ Continue(c,
                      Respond(r, [code |-> 200,
                                  message |-> IF build = "server" THEN "Walk-in added"
                                              ELSE "Added"]))
    /\ UNCHANGED <<services, nextServiceId, holidays, nextHolidayId, config>>

-----------------------------------------------------------------------------
(* /api/holidays *)

\* POST /api/holidays: INSERT INTO holidays (date, status, note)
PostHolidays(h) ==
    /\ nextHolidayId <= MaxHolidays
    /\ holidays' = holidays \cup
         {[id |-> nextHolidayId, date |-> h.date, status |-> h.status, note |-> h.note]}
    /\ nextHolidayId' = nextHolidayId + 1
    /\ UNCHANGED <<services, nextServiceId, bookings, inflight, config>>
    /\ answered' = Idle

\* DELETE /api/holidays/:id
DeleteHolidays(id) ==
    /\ holidays' = {h \in holidays : h.id # id}
    /\ holidays' # holidays
    /\ UNCHANGED <<services, nextServiceId, nextHolidayId, bookings, inflight, config>>
    /\ answered' = Idle

-----------------------------------------------------------------------------
(* PUT /api/admin/bookings/:id *)

MapLink == <<"m", "a", "p">>
NoMessage == Message("", <<>>)

\* The statement inserting a row when no booking has the id.
SetStatusUpsert(id, status) ==
    IF id \in 1..Len(bookings)
    THEN [bookings EXCEPT ![id].status = status]
    ELSE Append(bookings, BookingRow(<<>>, <<>>, <<>>, <<>>, status, "Online"))

\* UPDATE bookings SET status = $1 WHERE id = $2
SetStatus(id, status) ==
    IF id \in 1..Len(bookings)
    THEN [bookings EXCEPT ![id].status = status]
    ELSE bookings

\* SELECT * FROM bookings WHERE id = $1, and in part_000's first program
\* SELECT b.*, s.price ... LEFT JOIN services s ON b.service_name = s.name:
\* rows[0], or NoRow.
NoRow == [none |-> TRUE]
SelectBooking(id) ==
    IF id \in 1..Len(bookings)
    THEN [row |-> bookings[id],
          price |-> IF build = "partA"
                    THEN PriceText(ServicePriceRows(bookings[id].service_name))
                    ELSE S_NA]
    ELSE NoRow

\* const booking = rows[0]: the columns of the row that the handlers read
\* after the query.
BookingRead(row) ==
    [customer_name |-> row.customer_name, customer_phone |-> row.customer_phone,
     service_name |-> row.service_name, date_time |-> row.date_time,
     type |-> row.type]

\* The messages with the templates of Declined and Completed exchanged.
msgBodySwapped(status, booking, price) ==
    CASE status = "Confirmed" -> Message("Confirmed", <<booking.date_time>>)
      [] status = "Declined" -> Message("Completed", <<booking.customer_name>>)
      [] status = "Completed" -> Message("Declined", <<booking.customer_name>>)
      [] OTHER -> NoMessage

\* The message of each program for a target status, by the values it
\* interpolates; the empty message for any other status.
msgBody(status, booking, price) ==
    CASE build = "server" ->
           (CASE status = "Confirmed" ->
                   Message("Confirmed", <<booking.customer_name, booking.service_name,
                                          booking.date_time, MapLink>>)
              [] status = "Declined" ->
                   Message("Declined", <<booking.customer_name, booking.date_time>>)
              [] status = "Completed" ->
                   Message("Completed", <<booking.customer_name>>)
              [] status = "No-Show" ->
                   Message("No-Show", <<booking.customer_name, booking.date_time>>)
              [] OTHER -> NoMessage)
      [] build = "partA" ->
           (CASE status = "Confirmed" ->
                   Message("Confirmed", <<booking.customer_name, booking.service_name,
                                          price, booking.date_time, MapLink>>)
              [] status = "Declined" ->
                   Message("Declined", <<booking.customer_name, booking.date_time>>)
              [] status = "Completed" ->
                   Message("Completed", <<booking.customer_name>>)
              [] OTHER -> NoMessage)
      [] build = "partB" ->
           (CASE status = "Confirmed" -> Message("Confirmed", <<booking.date_time>>)
              [] status = "Declined" -> Message("Declined", <<>>)
              [] status = "Completed" -> Message("Completed", <<>>)
              [] OTHER -> NoMessage)

StatusUpdated ==
    [code |-> 200, message |-> IF build = "partB" THEN "Updated" ELSE "Status Updated"]

StorageError == [code |-> 500, error |-> "err.message"]

\* The handler answering at once, without a message, when the booking has the
\* target status already.
PutBookingStatusDedup(c, id, status, fault) ==
    /\ Free(c)
    /\ LET r == Request("status", "select", [id |-> id, status |-> status],
                        [booking |-> NoRow, price |-> S_NA])
       IN  IF fault
           THEN /\ Continue(c, Respond(r, StorageError))
                /\ UNCHANGED bookings
           ELSE /\ bookings' = SetStatus(id, status)
                /\ Continue(c, IF bookings' = bookings THEN Respond(r, StatusUpdated)
                                ELSE r)
    /\ UNCHANGED <<services, nextServiceId, holidays, nextHolidayId, config>>

\* The request arrives and its UPDATE runs.
PutBookingStatus(c, id, status, fault) ==
    /\ Free(c)
    /\ LET r == Request("status", "select", [id |-> id, status |-> status],
                        [booking |-> NoRow, price |-> S_NA])
       IN  IF fault
           THEN /\ Continue(c, Respond(r, StorageError))
                /\ UNCHANGED bookings
           ELSE /\ bookings' = SetStatus(id, status)
                /\ Continue(c, r)
    /\ UNCHANGED <<services, nextServiceId, holidays, nextHolidayId, config>>

\* The handler taking the status of its message from the row it reads back.
PutBookingStatusSelectStored(c, fault) ==
    /\ inflight[c].kind = "status"
    /\ inflight[c].pc = "select"
    /\ LET r == inflight[c]
           got == SelectBooking(r.body.id)
       IN  Continue(c,
             IF fault THEN Respond(r, StorageError)
             ELSE IF got # NoRow /\ got.row.type = "Online"
                     /\ msgBody(got.row.status, got.row, got.price) # NoMessage
                  THEN [r EXCEPT !.pc = "notify", !.loc.booking = BookingRead(got.row),
                                 !.loc.price = got.price,
                                 !.body.status = got.row.status]
             ELSE Respond(r, StatusUpdated))
    /\ UNCHANGED <<store, config>>

\* The booking is read back; a request with nothing to send is answered.
PutBookingStatusSelect(c, fault) ==
    /\ inflight[c].kind = "status"
    /\ inflight[c].pc = "select"
    /\ LET r == inflight[c]
           got == SelectBooking(r.body.id)
       IN  Continue(c,
             IF fault THEN Respond(r, StorageError)
             ELSE IF got # NoRow /\ got.row.type = "Online"
                     /\ msgBody(r.body.status, got.row, got.price) # NoMessage
                  THEN [r EXCEPT !.pc = "notify", !.loc.booking = BookingRead(got.row),
                                 !.loc.price = got.price]
             ELSE Respond(r, StatusUpdated))
    /\ UNCHANGED <<store, config>>

\* The handler with a helper that lets the failure of the post out: the
\* catch of the handler answers 500.
PutBookingStatusNotifyThrowing(c, ok) ==
    /\ inflight[c].kind = "status"
    /\ inflight[c].pc = "notify"
    /\ LET r == inflight[c]
           sent == Notify(r, r.loc.booking.customer_phone,
                          msgBody(r.body.status, r.loc.booking, r.loc.price), ok)
       IN  Continue(c,
             IF sent.posts # <<>> /\ ~ok THEN Respond(sent, StorageError)
             ELSE Respond(sent, StatusUpdated))
    /\ UNCHANGED <<store, config>>

\* await sendWhatsApp(booking.customer_phone, msgBody), then the answer.
PutBookingStatusNotify(c, ok) ==
    /\ inflight[c].kind = "status"
    /\ inflight[c].pc = "notify"
    /\ LET r == inflight[c]
       IN  Continue(c,
             Respond(Notify(r, r.loc.booking.customer_phone,
                            msgBody(r.body.status, r.loc.booking, r.loc.price), ok),
                     StatusUpdated))
    /\ UNCHANGED <<store, config>>

-----------------------------------------------------------------------------
(* GET /api/slots *)

\* A request without the date parameter: req.query.date is undefined.
NoDate == <<>>

\* `${date}%`: an undefined date renders as the word undefined.
datePattern(date) == (IF date = NoDate THEN S_undefined ELSE date) \o <<"%">>

\* The lookup of booking creation, which reads the Closed rows only.
HolidayRowsClosedOnly(date) ==
    IF date = NoDate THEN {} ELSE {h \in holidays : h.date = date /\ h.status = "Closed"}

\* SELECT * FROM holidays WHERE date = $1 (an undefined parameter is sent as
\* NULL, which equals no date)
HolidayRows(date) == IF date = NoDate THEN {} ELSE {h \in holidays : h.date = date}

\* rows[0]: the store returns the rows in the order of their ids.
FirstHoliday(rows) == CHOOSE h \in rows : \A g \in rows : h.id <= g.id

\* The query without its status condition.
SlotRowsAnyStatus(date) ==
    SelectSeq(bookings, LAMBDA b : Like(b.date_time, datePattern(date)))

\* The query listing the confirmed bookings only.
SlotRowsConfirmedOnly(date) ==
    SelectSeq(bookings, LAMBDA b : /\ Like(b.date_time, datePattern(date))
                                   /\ b.status = "Confirmed")

\* SELECT date_time FROM bookings WHERE date_time LIKE $1 AND status != 'Declined'
SlotRows(date) ==
    SelectSeq(bookings, LAMBDA b : /\ Like(b.date_time, datePattern(date))
                                   /\ b.status # "Declined")

\* rows.map(row => row.date_time.split(' at ')[1])
bookedTimes(rows) == [i \in 1..Len(rows) |-> Split(rows[i].date_time, S_at)[2]]

\* The handler answering every holiday record as Closed.
GetSlotsClosedLiteral(c, date, fault) ==
    /\ Free(c)
    /\ LET r == Request("slots", "bookings", [date |-> date], NoLoc)
           rows == HolidayRows(date)
       IN  Continue(c,
             IF build # "partA" /\ date = NoDate
             THEN Respond(r, [code |-> 400, error |-> "Date required"])
             ELSE IF fault THEN Respond(r, StorageError)
             ELSE IF rows # {}
                  THEN Respond(r, [code |-> 200, status |-> "Closed",
                                   note |-> FirstHoliday(rows).note, data |-> <<>>])
             ELSE r)
    /\ UNCHANGED <<store, config>>

\* The request arrives; part_000's first program has no date check; the
\* holiday lookup runs.
GetSlots(c, date, fault) ==
    /\ Free(c)
    /\ LET r == Request("slots", "bookings", [date |-> date], NoLoc)
           rows == HolidayRows(date)
       IN  Continue(c,
             IF build # "partA" /\ date = NoDate
             THEN Respond(r, [code |-> 400, error |-> "Date required"])
             ELSE IF fault THEN Respond(r, StorageError)
             ELSE IF rows # {}
                  THEN Respond(r, [code |-> 200, status |-> FirstHoliday(rows).status,
                                   note |-> FirstHoliday(rows).note, data |-> <<>>])
             ELSE r)
    /\ UNCHANGED <<store, config>>

\* The bookings of the date are read and the request is answered.
GetSlotsBookings(c, fault) ==
    /\ inflight[c].kind = "slots"
    /\ inflight[c].pc = "bookings"
    /\ LET r == inflight[c]
       IN  Continue(c,
             IF fault THEN Respond(r, StorageError)
             ELSE Respond(r, [code |-> 200, status |-> "Open",
                              data |-> bookedTimes(SlotRows(r.body.date))]))
    /\ UNCHANGED <<store, config>>

-----------------------------------------------------------------------------
(* /api/services *)

\* The services table holds one row per name (spec.md, section 3: a Service
\* is unique by name); the store refuses a statement that would break it.
ServiceNameUnique(rows) ==
    \A s \in rows : \A t \in rows : s.name = t.name => s.id = t.id

\* POST /api/services: INSERT INTO services (shop_id, name, price, ...); the
\* columns category and duration are read by no handler.
PostServices(b) ==
    /\ nextServiceId <= MaxServices
    /\ LET rows == services \cup {[id |-> nextServiceId, name |-> b.name,
                                   price |-> b.price]}
       IN  IF ServiceNameUnique(rows)
           THEN services' = rows /\ nextServiceId' = nextServiceId + 1
           ELSE UNCHANGED <<services, nextServiceId>>
    /\ UNCHANGED <<holidays, nextHolidayId, bookings, inflight, config>>
    /\ answered' = Idle

\* PUT /api/services/:id: UPDATE services SET name=$1, price=$2, ... WHERE id=$5
PutServices(id, b) ==
    /\ LET rows == {IF s.id = id THEN [s EXCEPT !.name = b.name, !.price = b.price]
                    ELSE s : s \in services}
       IN  /\ ServiceNameUnique(rows)
           /\ rows # services
           /\ services' = rows
    /\ UNCHANGED <<nextServiceId, holidays, nextHolidayId, bookings, inflight, config>>
    /\ answered' = Idle

\* DELETE /api/services/:id
DeleteServices(id) ==
    /\ services' = {s \in services : s.id # id}
    /\ services' # services
    /\ UNCHANGED <<nextServiceId, holidays, nextHolidayId, bookings, inflight, config>>
    /\ answered' = Idle

-----------------------------------------------------------------------------
(* GET /api/admin/stats *)

\* The order of localeCompare on the characters of a month key.
Collation == <<"-", "0", "1", "2", "3", "4", "5", "6", "7", "8", "9">>
CharOrd(ch) == CHOOSE i \in 1..Len(Collation) : Collation[i] = ch

\* a.localeCompare(b): negative, zero or positive
RECURSIVE localeCompare(_, _)
localeCompare(a, b) ==
    IF a = <<>> /\ b = <<>> THEN 0
    ELSE IF a = <<>> THEN -1
    ELSE IF b = <<>> THEN 1
    ELSE IF CharOrd(Head(a)) < CharOrd(Head(b)) THEN -1
    ELSE IF CharOrd(Head(a)) > CharOrd(Head(b)) THEN 1
    ELSE localeCompare(Tail(a), Tail(b))

\* parseInt of a string of digits, as the counts of the store arrive
RECURSIVE parseInt(_)
parseInt(str) ==
    IF str = <<>> THEN 0
    ELSE 10 * parseInt(SubSeq(str, 1, Len(str) - 1))
         + (CHOOSE n \in 0..9 : DigitChars[n + 1] = str[Len(str)])

\* new Date().toISOString(): the UTC date, T, and the time of day
toISOString(d) ==
    NumToStr(d.y) \o S_dash \o z(d.m) \o S_dash \o z(d.d)
        \o <<"T", "0", "0", ":", "0", "0", ":", "0", "0", ".", "0", "0", "0", "Z">>

\* todayDate: the local date in server.js, the UTC date in part_000
todayDate ==
    IF build = "server" THEN getLocalISODate(clock.local)
    ELSE Split(toISOString(clock.utc), <<"T">>)[1]

\* The rows a booking has in the LEFT JOIN with services on the name: one per
\* service of that name, or one without a price.
RECURSIVE JoinRows(_, _)
JoinRows(b, matches) ==
    IF matches = {} THEN <<>>
    ELSE LET s == CHOOSE x \in matches : \A y \in matches : x.id <= y.id
         IN  <<[date_time |-> b.date_time, matched |-> TRUE, price |-> s.price]>>
                 \o JoinRows(b, matches \ {s})

\* SELECT b.date_time, s.price FROM bookings b LEFT JOIN services s
\* ON b.service_name = s.name WHERE b.status = 'Completed'
RECURSIVE revRows(_)
revRows(i) ==
    IF i > Len(bookings) THEN <<>>
    ELSE LET b == bookings[i]
             matches == {s \in services : s.name = b.service_name}
         IN  (IF b.status # "Completed" THEN <<>>
              ELSE IF matches = {}
                   THEN <<[date_time |-> b.date_time, matched |-> FALSE, price |-> 0]>>
              ELSE JoinRows(b, matches))
             \o revRows(i + 1)

\* row.price || 0
priceOf(row) == IF row.matched THEN row.price ELSE 0

HasMonth(h, key) == \E k \in 1..Len(h) : h[k].month = key

\* The body of the forEach with = in place of +=.
addRowOverwriting(h, row) ==
    IF row.date_time = <<>> THEN h
    ELSE LET monthKey == Substring0(row.date_time, 7)
             h0 == IF HasMonth(h, monthKey) THEN h
                   ELSE Append(h, [month |-> monthKey, revenue |-> 0])
         IN  [k \in 1..Len(h0) |->
                 IF h0[k].month = monthKey
                 THEN [h0[k] EXCEPT !.revenue = priceOf(row)]
                 ELSE h0[k]]

\* The body of the forEach on monthlyHistory, whose keys keep the order in
\* which they were added.
addRow(h, row) ==
    IF row.date_time = <<>> THEN h
    ELSE LET monthKey == Substring0(row.date_time, 7)
             h0 == IF HasMonth(h, monthKey) THEN h
                   ELSE Append(h, [month |-> monthKey, revenue |-> 0])
         IN  [k \in 1..Len(h0) |->
                 IF h0[k].month = monthKey
                 THEN [h0[k] EXCEPT !.revenue = @ + priceOf(row)]
                 ELSE h0[k]]

\* revRes.rows.forEach(...)
RECURSIVE monthlyHistory(_, _)
monthlyHistory(rows, h) ==
    IF rows = <<>> THEN h ELSE monthlyHistory(Tail(rows), addRow(h, Head(rows)))

\* if (monthKey === currentMonthStr) currentMonthRevenue += price
RECURSIVE currentMonthRevenue(_, _)
currentMonthRevenue(rows, currentMonthStr) ==
    IF rows = <<>> THEN 0
    ELSE (IF Head(rows).date_time # <<>>
             /\ Substring0(Head(rows).date_time, 7) = currentMonthStr
          THEN priceOf(Head(rows)) ELSE 0)
         + currentMonthRevenue(Tail(rows), currentMonthStr)

\* The sort with its comparison the other way round.
RECURSIVE historyArrayAscending(_)
historyArrayAscending(h) ==
    IF h = <<>> THEN <<>>
    ELSE LET k == CHOOSE i \in 1..Len(h) :
                    \A j \in 1..Len(h) :
                        \/ localeCompare(h[i].month, h[j].month) < 0
                        \/ (localeCompare(h[i].month, h[j].month) = 0 /\ i <= j)
         IN  <<h[k]>> \o historyArrayAscending(SubSeq(h, 1, k - 1)
                                                  \o SubSeq(h, k + 1, Len(h)))

\* .sort((a, b) => b.month.localeCompare(a.month))
RECURSIVE historyArray(_)
historyArray(h) ==
    IF h = <<>> THEN <<>>
    ELSE LET k == CHOOSE i \in 1..Len(h) :
                    \A j \in 1..Len(h) :
                        \/ localeCompare(h[i].month, h[j].month) > 0
                        \/ (localeCompare(h[i].month, h[j].month) = 0 /\ i <= j)
         IN  <<h[k]>> \o historyArray(SubSeq(h, 1, k - 1) \o SubSeq(h, k + 1, Len(h)))

\* SELECT COUNT(*) FROM bookings WHERE date_time LIKE $1
\* AND status IN ('Confirmed', 'Completed'), as the store renders the count
todayCount(today) ==
    NumToStr(Len(SelectSeq(bookings,
        LAMBDA b : /\ Like(b.date_time, today \o <<"%">>)
                   /\ b.status \in {"Confirmed", "Completed"})))

\* SELECT COUNT(*) FROM bookings WHERE status = 'Pending'
pendingCount == NumToStr(Len(SelectSeq(bookings, LAMBDA b : b.status = "Pending")))

\* The request arrives and the revenue query runs.
GetAdminStats(c, fault) ==
    /\ Free(c)
    /\ LET rows == revRows(1)
           r == Request("stats", "today", NoBody,
                        [todayDate |-> todayDate,
                         revenue |-> currentMonthRevenue(rows, Substring0(todayDate, 7)),
                         history |-> historyArray(monthlyHistory(rows, <<>>)),
                         today |-> 0])
       IN  Continue(c, IF fault THEN Respond(r, StorageError) ELSE r)
    /\ UNCHANGED <<store, config>>

\* The bookings of today are counted.
GetAdminStatsToday(c, fault) ==
    /\ inflight[c].kind = "stats"
    /\ inflight[c].pc = "today"
    /\ LET r == inflight[c]
       IN  Continue(c,
             IF fault THEN Respond(r, StorageError)
             ELSE [r EXCEPT !.pc = "pending",
                            !.loc.today = parseInt(todayCount(r.loc.todayDate))])
    /\ UNCHANGED <<store, config>>

\* The pending bookings are counted and the request is answered.
GetAdminStatsPending(c, fault) ==
    /\ inflight[c].kind = "stats"
    /\ inflight[c].pc = "pending"
    /\ LET r == inflight[c]
       IN  Continue(c,
             IF fault THEN Respond(r, StorageError)
             ELSE Respond(r, [code |-> 200, today |-> r.loc.today,
                              pending |-> parseInt(pendingCount),
                              revenue |-> r.loc.revenue,
                              history |-> r.loc.history]))
    /\ UNCHANGED <<store, config>>

-----------------------------------------------------------------------------
(* PUT /api/admin/bookings/:id/update *)

\* The UPDATE sending the booking back to Pending for a new approval.
SetDetailsResetStatus(id, name, service, dt) ==
    IF id \in 1..Len(bookings)
    THEN [bookings EXCEPT ![id].customer_name = name, ![id].service_name = service,
                          ![id].date_time = dt, ![id].status = "Pending"]
    ELSE bookings

\* UPDATE bookings SET customer_name = $1, service_name = $2, date_time = $3
\* WHERE id = $4
SetDetails(id, name, service, dt) ==
    IF id \in 1..Len(bookings)
    THEN [bookings EXCEPT ![id].customer_name = name, ![id].service_name = service,
                          ![id].date_time = dt]
    ELSE bookings

\* The message of each program about the new time, by the values it
\* interpolates.
updateMsg(booking, b) ==
    IF build = "server"
    THEN Message("Updated", <<booking.customer_name, b.service, dateTime(b.date, b.time)>>)
    ELSE Message("Updated", <<dateTime(b.date, b.time)>>)

BookingUpdated ==
    [code |-> 200,
     message |-> IF build = "server" THEN "Booking updated successfully" ELSE "Updated"]

\* The handler with the holiday lookup of booking creation in front of its
\* UPDATE.
PutBookingUpdateHolidayChecked(c, id, b, fault) ==
    /\ Free(c)
    /\ LET r == Request("update", "select",
                        [id |-> id, name |-> b.name, service |-> b.service,
                         date |-> b.date, time |-> b.time],
                        [booking |-> NoRow])
       IN  IF fault \/ ClosedHolidayRows(b.date) # {}
           THEN /\ Continue(c, Respond(r, IF fault THEN StorageError
                                          ELSE [code |-> 400,
                                                error |-> "Shop is closed on"]))
                /\ UNCHANGED bookings
           ELSE /\ bookings' = SetDetails(id, b.name, b.service, dateTime(b.date, b.time))
                /\ Continue(c, r)
    /\ UNCHANGED <<services, nextServiceId, holidays, nextHolidayId, config>>

\* The request arrives and its UPDATE runs.
PutBookingUpdate(c, id, b, fault) ==
    /\ Free(c)
    /\ LET r == Request("update", "select",
                        [id |-> id, name |-> b.name, service |-> b.service,
                         date |-> b.date, time |-> b.time],
                        [booking |-> NoRow])
       IN  IF fault
           THEN /\ Continue(c, Respond(r, StorageError))
                /\ UNCHANGED bookings
           ELSE /\ bookings' = SetDetails(id, b.name, b.service, dateTime(b.date, b.time))
                /\ Continue(c, r)
    /\ UNCHANGED <<services, nextServiceId, holidays, nextHolidayId, config>>

\* The handler without the condition on the type of the booking.
PutBookingUpdateSelectAnyType(c, fault) ==
    /\ inflight[c].kind = "update"
    /\ inflight[c].pc = "select"
    /\ LET r == inflight[c]
           rows == IF r.body.id \in 1..Len(bookings) THEN <<bookings[r.body.id]>>
                   ELSE <<>>
       IN  Continue(c,
             IF fault THEN Respond(r, StorageError)
             ELSE IF rows # <<>>
                  THEN [r EXCEPT !.pc = "notify", !.loc.booking = BookingRead(rows[1])]
             ELSE Respond(r, BookingUpdated))
    /\ UNCHANGED <<store, config>>

\* The booking is read back; a request on a walk-in or on no booking is
\* answered.
PutBookingUpdateSelect(c, fault) ==
    /\ inflight[c].kind = "update"
    /\ inflight[c].pc = "select"
    /\ LET r == inflight[c]
           rows == IF r.body.id \in 1..Len(bookings) THEN <<bookings[r.body.id]>>
                   ELSE <<>>
       IN  Continue(c,
             IF fault THEN Respond(r, StorageError)
             ELSE IF rows # <<>> /\ rows[1].type = "Online"
                  THEN [r EXCEPT !.pc = "notify", !.loc.booking = BookingRead(rows[1])]
             ELSE Respond(r, BookingUpdated))
    /\ UNCHANGED <<store, config>>

\* await sendWhatsApp(booking.customer_phone, msg), then the answer.
PutBookingUpdateNotify(c, ok) ==
    /\ inflight[c].kind = "update"
    /\ inflight[c].pc = "notify"
    /\ LET r == inflight[c]
       IN  Continue(c,
             Respond(Notify(r, r.loc.booking.customer_phone,
                            updateMsg(r.loc.booking, r.body), ok),
                     BookingUpdated))
    /\ UNCHANGED <<store, config>>

-----------------------------------------------------------------------------
(* POST /api/admin/login *)

\* The check of the username alone.
loginMatchesUserOnly(b) == b.username = env.adminUser

\* username === process.env.ADMIN_USERNAME && password === process.env.ADMIN_PASSWORD
loginMatches(b) == b.username = env.adminUser /\ b.password = env.adminPass

\* token: 'secure-session-token', and 'session' in part_000's first program
Token == IF build = "partA" THEN "session" ELSE "secure-session-token"

\* The handler has no await: the request is answered as it arrives.
PostAdminLogin(c, b) ==
    /\ Free(c)
    /\ LET r == Request("login", "check", b, NoLoc)
       IN  Continue(c,
             IF loginMatches(b)
             THEN Respond(r, [code |-> 200, success |-> TRUE, token |-> Token])
             ELSE Respond(r, [code |-> 401, success |-> FALSE]))
    /\ UNCHANGED <<store, config>>

-----------------------------------------------------------------------------
(* Initial states and inputs *)

\* The deployment with both numbers configured, and the two with one missing.
Envs == {[ownerPhone |-> P_Owner, metaPhoneId |-> TRUE,
            adminUser |-> Str(U_admin), adminPass |-> Str(W_secret)],
         [ownerPhone |-> <<>>, metaPhoneId |-> TRUE,
          adminUser |-> Str(U_admin), adminPass |-> Str(W_secret)],
         [ownerPhone |-> P_Owner, metaPhoneId |-> FALSE,
          adminUser |-> Str(U_admin), adminPass |-> Str(W_secret)]}

\* The shop's clock on a holiday and on an ordinary day; the local date runs
\* ahead of the UTC date in the first hours of the day.
HolidayClock == [local |-> [y |-> 2024, m |-> 12, d |-> 25],
                 utc |-> [y |-> 2024, m |-> 12, d |-> 25]]
EarlyClock == [local |-> [y |-> 2024, m |-> 6, d |-> 1],
               utc |-> [y |-> 2024, m |-> 5, d |-> 31]]
SeedServices == {[id |-> 1, name |-> Sv_Haircut, price |-> 500]}

CreateBodies ==
    {[name |-> N_Asha, phone |-> P_Asha, service |-> Sv_Haircut,
      date |-> D_Dec25, time |-> T_1000],
     [name |-> N_Ravi, phone |-> P_Ravi, service |-> Sv_Shave,
      date |-> D_Jun01, time |-> T_1000]}

WalkinBodies == {[name |-> N_Ravi, service |-> Sv_Haircut, time |-> T_1100]}

HolidayBodies ==
    {[date |-> D_Dec25, status |-> "Closed", note |-> Note_Festival],
     [date |-> D_Dec25, status |-> "Limited", note |-> Note_Festival]}

\* The server starts on a store holding the price list and no request.
InitBooking ==
    /\ build \in Builds
    /\ env \in Envs
    /\ clock = HolidayClock
    /\ services = SeedServices
    /\ nextServiceId = 2
    /\ holidays = {}
    /\ nextHolidayId = 1
    /\ bookings = <<>>
    /\ inflight = [c \in Conns |-> Idle]
    /\ answered = Idle
    /\ prev = NoPrev

NextBooking ==
    \/ /\ \E c \in Conns, b \in CreateBodies, fault \in BOOLEAN :
             PostBookings(c, b, fault)
       /\ UNCHANGED prev
    \/ /\ \E c \in Conns, fault \in BOOLEAN : PostBookingsPrice(c, fault)
       /\ UNCHANGED prev
    \/ /\ \E c \in Conns, fault \in BOOLEAN : PostBookingsInsert(c, fault)
       /\ UNCHANGED prev
    \/ /\ \E c \in Conns, ok \in BOOLEAN : PostBookingsNotify(c, ok)
       /\ UNCHANGED prev
    \/ /\ \E c \in Conns, b \in WalkinBodies, fault \in BOOLEAN :
             PostAdminWalkin(c, b, fault)
       /\ UNCHANGED prev
    \/ /\ \E h \in HolidayBodies : PostHolidays(h)
       /\ UNCHANGED prev
    \/ /\ \E id \in 1..MaxHolidays : DeleteHolidays(id)
       /\ UNCHANGED prev

\* Booking creation, walk-ins and the holiday calendar.
SpecBooking == InitBooking /\ [][NextBooking]_vars

-----------------------------------------------------------------------------
(* Claims on booking creation (SpecBooking) *)

ClosedOn(date) == \E h \in holidays : h.date = date /\ h.status = "Closed"

\* This step answered a request.
Answers == answered' # Idle

\* This step answered the request that was running on connection c.
Leaves(c) == inflight[c] # Idle /\ inflight'[c] = Idle

\* This step is the holiday lookup of a creation that is answered at once.
CreateEndsAtLookup ==
    /\ Answers
    /\ inflight' = inflight
    /\ answered'.kind = "create"

\* C1: when the holiday lookup of an online booking creation runs on a date
\* that has a Closed holiday record at that moment, the request does not go on
\* to its insert: it is answered 400 in that step, no booking row is inserted
\* and the notification helper is not invoked. (A lookup that itself raises a
\* storage error is answered 500, the storage error of the error taxonomy.)
C1_ClosedDateRejected ==
    [][ /\ \A c \in Conns :
             (Free(c) /\ inflight'[c].kind = "create")
                 => ~ClosedOn(inflight'[c].body.date)
        /\ (CreateEndsAtLookup /\ ClosedOn(answered'.body.date)
              /\ answered'.resp.code # 500)
             => /\ answered'.resp.code = 400
                /\ answered'.resp.date = answered'.body.date
                /\ answered'.loc.id = 0
                /\ bookings' = bookings
                /\ answered'.calls = <<>>
                /\ answered'.posts = <<>>
      ]_vars

\* A creation on a date with a Closed holiday in the calendar was answered 400.
C1_Witness ==
    /\ answered.kind = "create"
    /\ answered.resp.code = 400
    /\ ClosedOn(answered.body.date)

\* C6: a walk-in request never invokes the notification helper, whether its
\* insert succeeded or failed.
C6_WalkinSilent ==
    answered.kind = "walkin" => (answered.calls = <<>> /\ answered.posts = <<>>)

\* A walk-in was added while both notification numbers are configured.
C6_Witness ==
    /\ answered.kind = "walkin"
    /\ answered.resp.code = 200
    /\ env.ownerPhone # <<>>
    /\ env.metaPhoneId
    /\ bookings # <<>>

\* C7: a step that inserts a booking inserts exactly one row and leaves the
\* others alone; the row of an online creation is Pending and Online with the
\* fields of the request, the row of a walk-in is Confirmed and Walk-in with
\* the sentinel phone and today's date; a creation answered with success has
\* its row, and a walk-in whose insert does not fail is always added, whatever
\* the holiday calendar holds.
C7_InitialStatusByType ==
    [][ /\ Len(bookings') # Len(bookings) =>
             /\ Len(bookings') = Len(bookings) + 1
             /\ SubSeq(bookings', 1, Len(bookings)) = bookings
             /\ LET row == bookings'[Len(bookings')]
                IN  \/ /\ row.type = "Online"
                       /\ row.status = "Pending"
                       /\ \E c \in Conns :
                            /\ inflight[c].kind = "create"
                            /\ inflight[c].pc = "insert"
                            /\ inflight'[c] # inflight[c]
                            /\ row.customer_name = inflight[c].body.name
                            /\ row.customer_phone = inflight[c].body.phone
                            /\ row.service_name = inflight[c].body.service
                            /\ row.date_time =
                                 inflight[c].body.date \o <<" ", "a", "t", " ">>
                                     \o inflight[c].body.time
                    \/ /\ row.type = "Walk-in"
                       /\ row.status = "Confirmed"
                       /\ row.customer_phone = SentinelPhone
                       /\ inflight' = inflight
                       /\ answered'.kind = "walkin"
                       /\ answered'.resp.code = 200
                       /\ row.customer_name = answered'.body.name
                       /\ row.service_name = answered'.body.service
        /\ ((\E c \in Conns : Leaves(c)) /\ answered'.kind = "create"
              /\ answered'.resp.code = 200)
             => /\ answered'.loc.id \in 1..Len(bookings')
                /\ bookings'[answered'.loc.id].type = "Online"
        /\ (Answers /\ answered'.kind = "walkin")
             => /\ answered'.resp.code \in {200, 500}
                /\ answered'.resp.code = 200 => Len(bookings') = Len(bookings) + 1
      ]_vars

\* A walk-in stands Confirmed on a date the calendar has Closed, next to a
\* Pending online booking.
C7_Witness ==
    /\ \E i \in 1..Len(bookings) :
          /\ bookings[i].type = "Walk-in"
          /\ bookings[i].status = "Confirmed"
          /\ ClosedOn(SubSeq(bookings[i].date_time, 1, 10))
    /\ \E i \in 1..Len(bookings) :
          bookings[i].type = "Online" /\ bookings[i].status = "Pending"

\* C8 as stated: every online creation answered with success has invoked the
\* owner notification exactly once.
C8_EverySuccessNotifies ==
    (answered.kind = "create" /\ answered.resp.code = 200)
        => Len(answered.calls) = 1

\* C8, amended: when OWNER_PHONE_NUMBER is configured, an online creation
\* answered with success has invoked the notification helper exactly once, for
\* the owner number with the new-booking message, with at most one post and
\* no second attempt; the row was inserted in an earlier step, and the answer
\* carries its id.
C8_SuccessNotifiesOwnerOnce ==
    [][ ((\E c \in Conns : Leaves(c)) /\ answered'.kind = "create"
           /\ answered'.resp.code = 200 /\ env.ownerPhone # <<>>)
          => /\ Len(answered'.calls) = 1
             /\ answered'.calls[1].to = env.ownerPhone
             /\ answered'.calls[1].body.tpl = "NewBooking"
             /\ Len(answered'.posts) <= 1
             /\ answered'.resp.id = answered'.loc.id
             /\ answered'.loc.id \in 1..Len(bookings)
             /\ bookings[answered'.loc.id].type = "Online"
             /\ bookings[answered'.loc.id].customer_phone = answered'.body.phone
      ]_vars

\* A creation succeeded and its one owner notification was posted.
C8_Witness ==
    /\ answered.kind = "create"
    /\ answered.resp.code = 200
    /\ Len(answered.calls) = 1
    /\ Len(answered.posts) = 1
    /\ answered.posts[1].ok

-----------------------------------------------------------------------------
(* Status updates (SpecStatus) *)

\* An online request of Asha and a walk-in of Ravi, as creation leaves them.
SeedBookings ==
    <<BookingRow(N_Asha, P_Asha, Sv_Haircut, dateTime(D_Jun01, T_1000),
                 OnlineInitial.status, OnlineInitial.type),
      BookingRow(N_Ravi, WalkinInitial.phone, Sv_Haircut, dateTime(D_Dec25, T_1100),
                 WalkinInitial.status, WalkinInitial.type)>>

\* The five statuses and one that is none of them.
TargetStatuses == BookingStatuses \cup {"Cancelled"}

\* Every status for the online booking, one for the walk-in, one for an id
\* that no booking has.
StatusRequests ==
    {[id |-> 1, status |-> st] : st \in TargetStatuses}
        \cup {[id |-> 2, status |-> "Completed"], [id |-> 3, status |-> "Confirmed"]}

InitStatus ==
    /\ build \in Builds
    /\ env = [ownerPhone |-> P_Owner, metaPhoneId |-> TRUE,
            adminUser |-> Str(U_admin), adminPass |-> Str(W_secret)]
    /\ clock = EarlyClock
    /\ services = SeedServices
    /\ nextServiceId = 2
    /\ holidays = {}
    /\ nextHolidayId = 1
    /\ bookings = SeedBookings
    /\ inflight = [c \in Conns |-> Idle]
    /\ answered = Idle
    /\ prev = NoPrev

NextStatus ==
    \/ /\ \E c \in Conns, q \in StatusRequests, fault \in BOOLEAN :
             PutBookingStatus(c, q.id, q.status, fault)
       /\ UNCHANGED prev
    \/ /\ \E c \in Conns, fault \in BOOLEAN : PutBookingStatusSelect(c, fault)
       /\ UNCHANGED prev
    \/ /\ \E c \in Conns, ok \in BOOLEAN : PutBookingStatusNotify(c, ok)
       /\ UNCHANGED prev

\* Concurrent status updates.
SpecStatus == InitStatus /\ [][NextStatus]_vars

\* The same requests one after the other on one connection, each answer
\* recorded with the bookings it left.
Record == prev' = IF answered # Idle THEN [req |-> answered, bookings |-> bookings]
                  ELSE prev

NextIdem ==
    \/ /\ \E q \in StatusRequests, fault \in BOOLEAN :
             PutBookingStatus(1, q.id, q.status, fault)
       /\ Record
    \/ /\ \E fault \in BOOLEAN : PutBookingStatusSelect(1, fault)
       /\ Record
    \/ /\ \E ok \in BOOLEAN : PutBookingStatusNotify(1, ok)
       /\ Record

\* Status updates in sequence.
SpecIdem == InitStatus /\ [][NextIdem]_vars

-----------------------------------------------------------------------------
(* Claims on status updates *)

IsOnline(id) == id \in 1..Len(bookings) /\ bookings[id].type = "Online"

\* C2: every stored booking has one of the five statuses.
C2_StatusAmongFive ==
    \A i \in 1..Len(bookings) : bookings[i].status \in BookingStatuses

\* C4 (SpecIdem): when a status update answered with success is followed by
\* the same update (same booking id, same target status), also answered with
\* success, the second request invokes the notification helper with the same
\* destinations and messages as the first, and leaves the bookings as the
\* first left them.
C4_RepeatedUpdateSame ==
    (/\ answered.kind = "status"
     /\ prev.req.kind = "status"
     /\ answered.body = prev.req.body
     /\ answered.resp.code = 200
     /\ prev.req.resp.code = 200)
        => /\ answered.calls = prev.req.calls
           /\ bookings = prev.bookings

\* The update of the online booking to Confirmed was answered twice in a row,
\* with a notification each time.
C4_Witness ==
    /\ answered.kind = "status"
    /\ prev.req.kind = "status"
    /\ answered.body = [id |-> 1, status |-> "Confirmed"]
    /\ prev.req.body = answered.body
    /\ Len(answered.calls) = 1
    /\ Len(prev.req.calls) = 1

\* C9: a status update of an online booking to Confirmed, Declined or
\* Completed that is answered with success has invoked the notification helper
\* exactly once, for the stored customer_phone of that booking, with the
\* message of the target status, and with at most one post; the helper is
\* invoked by a request that has run its UPDATE and its read in earlier steps,
\* and the UPDATE stores the target status; an update to a status outside
\* Confirmed, Declined, Completed and No-Show invokes nothing.
C9_UpdateNotifiesOnce ==
    [][ /\ \A c \in Conns :
             (Free(c) /\ inflight'[c].kind = "status"
                /\ inflight'[c].body.id \in 1..Len(bookings))
                 => bookings'[inflight'[c].body.id].status = inflight'[c].body.status
        /\ (Answers /\ answered'.kind = "status" /\ answered'.calls # <<>>)
             => \E c \in Conns :
                  /\ Leaves(c)
                  /\ inflight[c].pc = "notify"
                  /\ inflight[c].body = answered'.body
        /\ (Answers /\ answered'.kind = "status" /\ answered'.resp.code = 200
              /\ IsOnline(answered'.body.id)
              /\ answered'.body.status \in {"Confirmed", "Declined", "Completed"})
             => /\ Len(answered'.calls) = 1
                /\ answered'.calls[1].to = bookings[answered'.body.id].customer_phone
                /\ answered'.calls[1].body.tpl = answered'.body.status
                /\ Len(answered'.posts) <= 1
        /\ (Answers /\ answered'.kind = "status"
              /\ answered'.body.status
                   \notin {"Confirmed", "Declined", "Completed", "No-Show"})
             => answered'.calls = <<>> /\ answered'.posts = <<>>
      ]_vars

\* The online booking was moved to Completed and its customer was sent the
\* thank-you message.
C9_Witness ==
    /\ answered.kind = "status"
    /\ answered.resp.code = 200
    /\ answered.body = [id |-> 1, status |-> "Completed"]
    /\ Len(answered.calls) = 1
    /\ answered.calls[1].to = P_Asha
    /\ answered.calls[1].body.tpl = "Completed"
    /\ bookings[1].status = "Completed"

\* C10: a status update of an online booking to No-Show that is answered with
\* success has sent the missed-appointment message to the booking's
\* customer_phone.
C10_NoShowNotifies ==
    (/\ answered.kind = "status"
     /\ answered.resp.code = 200
     /\ IsOnline(answered.body.id)
     /\ answered.body.status = "No-Show")
        => /\ Len(answered.calls) = 1
           /\ answered.calls[1].to = bookings[answered.body.id].customer_phone
           /\ answered.calls[1].body.tpl = "No-Show"

-----------------------------------------------------------------------------
(* Availability (SpecSlots) *)

\* Two online requests of the same day and a walk-in of the holiday.
SeedSlots ==
    <<BookingRow(N_Asha, P_Asha, Sv_Haircut, dateTime(D_Jun01, T_1000),
                 OnlineInitial.status, OnlineInitial.type),
      BookingRow(N_Ravi, P_Ravi, Sv_Shave, dateTime(D_Jun01, T_1100),
                 OnlineInitial.status, OnlineInitial.type),
      BookingRow(N_Ravi, WalkinInitial.phone, Sv_Haircut, dateTime(D_Dec25, T_1100),
                 WalkinInitial.status, WalkinInitial.type)>>

SlotDates == {D_Jun01, D_Dec25, NoDate}

SlotStatusRequests ==
    {[id |-> 1, status |-> "Declined"], [id |-> 1, status |-> "Confirmed"],
     [id |-> 2, status |-> "Declined"]}

InitSlots ==
    /\ build \in Builds
    /\ env = [ownerPhone |-> P_Owner, metaPhoneId |-> TRUE,
            adminUser |-> Str(U_admin), adminPass |-> Str(W_secret)]
    /\ clock = EarlyClock
    /\ services = SeedServices
    /\ nextServiceId = 2
    /\ holidays = {}
    /\ nextHolidayId = 1
    /\ bookings = SeedSlots
    /\ inflight = [c \in Conns |-> Idle]
    /\ answered = Idle
    /\ prev = NoPrev

NextSlots ==
    \/ /\ \E c \in Conns, d \in SlotDates, fault \in BOOLEAN : GetSlots(c, d, fault)
       /\ UNCHANGED prev
    \/ /\ \E c \in Conns, fault \in BOOLEAN : GetSlotsBookings(c, fault)
       /\ UNCHANGED prev
    \/ /\ \E c \in Conns, q \in SlotStatusRequests :
             PutBookingStatus(c, q.id, q.status, FALSE)
       /\ UNCHANGED prev
    \/ /\ \E c \in Conns : PutBookingStatusSelect(c, FALSE)
       /\ UNCHANGED prev
    \/ /\ \E c \in Conns : PutBookingStatusNotify(c, TRUE)
       /\ UNCHANGED prev
    \/ /\ \E h \in HolidayBodies : PostHolidays(h)
       /\ UNCHANGED prev
    \/ /\ \E id \in 1..MaxHolidays : DeleteHolidays(id)
       /\ UNCHANGED prev

SpecSlots == InitSlots /\ [][NextSlots]_vars

\* The bookings of a date at a time, of any status but Declined.
Holders(date, time) ==
    {i \in 1..Len(bookings) :
        /\ SubSeq(bookings[i].date_time, 1, 10) = date
        /\ SubSeq(bookings[i].date_time, 15, Len(bookings[i].date_time)) = time
        /\ bookings[i].status # "Declined"}

Entries(data, time) == {k \in 1..Len(data) : data[k] = time}

\* C3 (SpecSlots): when the availability query of a date is answered with a
\* slot list, every time has at most as many entries in the list as there are
\* bookings of that date and time whose status is not Declined, at the moment
\* the list is read from the store: no entry is left for a Declined booking
\* to have contributed.
C3_DeclinedNotListed ==
    [][ (Answers /\ answered'.kind = "slots" /\ answered'.resp.code = 200)
          => \A t \in {T_1000, T_1100} :
               Cardinality(Entries(answered'.resp.data, t))
                   <= Cardinality(Holders(answered'.body.date, t))
      ]_vars

\* The first request of June 1st stands Declined and the list of that day
\* holds the time of the second request only.
C3_Witness ==
    /\ answered.kind = "slots"
    /\ answered.body.date = D_Jun01
    /\ answered.resp.code = 200
    /\ answered.resp.data = <<T_1100>>
    /\ bookings[1].status = "Declined"
    /\ bookings[1].date_time = dateTime(D_Jun01, T_1000)

-----------------------------------------------------------------------------
(* Statistics (SpecStats) *)

\* Bookings as creation and status updates leave them.
StatsBookings ==
    {BookingRow(N_Asha, P_Asha, Sv_Haircut, dateTime(D_Jun01, T_1000),
                "Completed", "Online"),
     BookingRow(N_Ravi, P_Ravi, Sv_Shave, dateTime(D_Jun01, T_1100),
                "Completed", "Online"),
     BookingRow(N_Asha, P_Asha, Sv_Haircut, dateTime(D_Dec25, T_1000),
                "Completed", "Online"),
     BookingRow(N_Asha, P_Asha, Sv_Haircut, dateTime(D_Jun01, T_1000),
                "Pending", "Online"),
     BookingRow(N_Ravi, WalkinInitial.phone, Sv_Haircut, dateTime(D_Jun01, T_1100),
                "Confirmed", "Walk-in")}

ServiceBodies == {[name |-> Sv_Shave, price |-> 300], [name |-> Sv_Haircut, price |-> 700]}

InitStats ==
    /\ build \in Builds
    /\ env = [ownerPhone |-> P_Owner, metaPhoneId |-> TRUE,
            adminUser |-> Str(U_admin), adminPass |-> Str(W_secret)]
    /\ clock = EarlyClock
    /\ services = SeedServices
    /\ nextServiceId = 2
    /\ holidays = {}
    /\ nextHolidayId = 1
    /\ \E n \in 0..MaxBookings : bookings \in [1..n -> StatsBookings]
    /\ inflight = [c \in Conns |-> Idle]
    /\ answered = Idle
    /\ prev = NoPrev

\* The stats requests arrive one after the other, between the changes of the
\* price list.
StatsConns == {1}

NextStats ==
    \/ /\ \E c \in StatsConns, fault \in BOOLEAN : GetAdminStats(c, fault)
       /\ UNCHANGED prev
    \/ /\ \E c \in StatsConns, fault \in BOOLEAN : GetAdminStatsToday(c, fault)
       /\ UNCHANGED prev
    \/ /\ \E c \in StatsConns, fault \in BOOLEAN : GetAdminStatsPending(c, fault)
       /\ UNCHANGED prev
    \/ /\ \E b \in ServiceBodies : PostServices(b)
       /\ UNCHANGED prev
    \/ /\ \E id \in 1..MaxServices, b \in ServiceBodies : PutServices(id, b)
       /\ UNCHANGED prev
    \/ /\ \E id \in 1..MaxServices : DeleteServices(id)
       /\ UNCHANGED prev

SpecStats == InitStats /\ [][NextStats]_vars

\* The price a booking resolves to: that of the service of its name, 0 when
\* there is none.
ResolvedPrice(b) ==
    LET named == {s \in services : s.name = b.service_name}
    IN  IF named = {} THEN 0 ELSE (CHOOSE s \in named : TRUE).price

RECURSIVE CompletedTotal(_)
CompletedTotal(i) ==
    IF i > Len(bookings) THEN 0
    ELSE (IF bookings[i].status = "Completed" THEN ResolvedPrice(bookings[i]) ELSE 0)
         + CompletedTotal(i + 1)

RECURSIVE SumRevenue(_)
SumRevenue(h) == IF h = <<>> THEN 0 ELSE Head(h).revenue + SumRevenue(Tail(h))

\* C5 (SpecStats): the revenue fields of the history that a stats request
\* computes sum to the total of the resolved prices of the Completed bookings
\* of the store its revenue query reads, and the history it answers with is
\* the one it computed.
C5_HistorySumsToCompleted ==
    [][ /\ \A c \in Conns :
             (Free(c) /\ inflight'[c].kind = "stats")
                 => SumRevenue(inflight'[c].loc.history) = CompletedTotal(1)
        /\ (Answers /\ answered'.kind = "stats" /\ answered'.resp.code = 200)
             => \E c \in Conns : /\ Leaves(c)
                                 /\ answered'.resp.history = inflight[c].loc.history
      ]_vars

\* The history of a store with two Completed bookings of June, one of a
\* service with a price, one of a service that is not in the list.
C5_Witness ==
    /\ answered.kind = "stats"
    /\ answered.resp.code = 200
    /\ Len(answered.resp.history) = 1
    /\ answered.resp.history[1].revenue = 500
    /\ Len(bookings) = 2
    /\ bookings[1].status = "Completed" /\ bookings[1].service_name = Sv_Haircut
    /\ bookings[2].status = "Completed" /\ bookings[2].service_name = Sv_Shave
    /\ services = SeedServices

-----------------------------------------------------------------------------
(* Notification outcomes (SpecNotify) *)

RescheduleBodies ==
    {[name |-> N_Ravi, service |-> Sv_Shave, date |-> D_Dec25, time |-> T_1100]}

NotifyStatusRequests == {[id |-> 1, status |-> "Confirmed"], [id |-> 1, status |-> "Completed"]}

\* The server runs on a store with one online booking.
InitNotify ==
    /\ build \in Builds
    /\ env = [ownerPhone |-> P_Owner, metaPhoneId |-> TRUE,
            adminUser |-> Str(U_admin), adminPass |-> Str(W_secret)]
    /\ clock = EarlyClock
    /\ services = SeedServices
    /\ nextServiceId = 2
    /\ holidays = {}
    /\ nextHolidayId = 1
    /\ bookings = <<SeedBookings[1]>>
    /\ inflight = [c \in Conns |-> Idle]
    /\ answered = Idle
    /\ prev = NoPrev

NextNotify ==
    \/ /\ \E c \in Conns, b \in CreateBodies : PostBookings(c, b, FALSE)
       /\ UNCHANGED prev
    \/ /\ \E c \in Conns : PostBookingsPrice(c, FALSE)
       /\ UNCHANGED prev
    \/ /\ \E c \in Conns : PostBookingsInsert(c, FALSE)
       /\ UNCHANGED prev
    \/ /\ \E c \in Conns, ok \in BOOLEAN : PostBookingsNotify(c, ok)
       /\ UNCHANGED prev
    \/ /\ \E c \in Conns, q \in NotifyStatusRequests :
             PutBookingStatus(c, q.id, q.status, FALSE)
       /\ UNCHANGED prev
    \/ /\ \E c \in Conns : PutBookingStatusSelect(c, FALSE)
       /\ UNCHANGED prev
    \/ /\ \E c \in Conns, ok \in BOOLEAN : PutBookingStatusNotify(c, ok)
       /\ UNCHANGED prev
    \/ /\ \E c \in Conns, b \in RescheduleBodies : PutBookingUpdate(c, 1, b, FALSE)
       /\ UNCHANGED prev
    \/ /\ \E c \in Conns : PutBookingUpdateSelect(c, FALSE)
       /\ UNCHANGED prev
    \/ /\ \E c \in Conns, ok \in BOOLEAN : PutBookingUpdateNotify(c, ok)
       /\ UNCHANGED prev

SpecNotify == InitNotify /\ [][NextNotify]_vars

\* The answer each program gives to a request that had its message delivered.
AnswerWhenSent(r) ==
    CASE r.kind = "create" ->
           [code |-> 200, message |-> "Booking sent!", id |-> r.loc.id]
      [] r.kind = "status" ->
           [code |-> 200,
            message |-> IF build = "partB" THEN "Updated" ELSE "Status Updated"]
      [] r.kind = "update" ->
           [code |-> 200,
            message |-> IF build = "server" THEN "Booking updated successfully"
                        ELSE "Updated"]

\* C11 (SpecNotify): when the post of a notification fails during a creation,
\* a status update or a reschedule, the step that makes the post changes no
\* booking, the row the request wrote is in the store, and the request is
\* answered with the success response that it gets when the post succeeds.
C11_SendFailureIsSuccess ==
    [][ \A c \in Conns :
          (/\ inflight[c].pc = "notify"
           /\ Leaves(c)
           /\ answered'.posts # <<>>
           /\ ~answered'.posts[Len(answered'.posts)].ok)
            => /\ bookings' = bookings
               /\ answered'.resp = AnswerWhenSent(inflight[c])
               /\ inflight[c].kind = "create" => inflight[c].loc.id \in 1..Len(bookings)
               /\ inflight[c].kind \in {"status", "update"}
                    => inflight[c].body.id \in 1..Len(bookings)
      ]_vars

\* A status update to Confirmed whose message could not be delivered was
\* answered with success and the booking stands Confirmed.
C11_Witness ==
    /\ answered.kind = "status"
    /\ answered.body = [id |-> 1, status |-> "Confirmed"]
    /\ Len(answered.posts) = 1
    /\ ~answered.posts[1].ok
    /\ answered.resp.code = 200
    /\ bookings[1].status = "Confirmed"

-----------------------------------------------------------------------------
(* Claims on availability (SpecSlots) *)

HolidayOn(date) == \E h \in holidays : h.date = date

\* C12 (SpecSlots): an availability query that arrives when a holiday record
\* of any status exists for its date, and whose holiday lookup succeeds, is
\* answered by that lookup, without reading the bookings, with the status and
\* the note of a holiday record of that date and an empty slot list.
C12_HolidayShadowsBookings ==
    [][ \A d \in SlotDates \ {NoDate} :
          HolidayOn(d)
            => /\ \A c \in Conns :
                    ~(Free(c) /\ inflight'[c].kind = "slots"
                        /\ inflight'[c].body.date = d)
               /\ (Answers /\ answered'.kind = "slots" /\ answered'.body.date = d
                     /\ inflight' = inflight /\ answered'.resp.code # 500)
                    => /\ answered'.resp.code = 200
                       /\ answered'.resp.data = <<>>
                       /\ \E h \in holidays :
                            /\ h.date = d
                            /\ answered'.resp.status = h.status
                            /\ answered'.resp.note = h.note
      ]_vars

\* December 25th has a Limited holiday and a Confirmed walk-in, and the query
\* of that date was answered Limited with no slot.
C12_Witness ==
    /\ answered.kind = "slots"
    /\ answered.body.date = D_Dec25
    /\ answered.resp.code = 200
    /\ answered.resp.status = "Limited"
    /\ answered.resp.note = Note_Festival
    /\ answered.resp.data = <<>>
    /\ bookings[3].date_time = dateTime(D_Dec25, T_1100)
    /\ bookings[3].status = "Confirmed"

\* C17: an availability query without a date is answered 400, and no such
\* request is left waiting for a storage query.
C17_NoDateRejected ==
    /\ (answered.kind = "slots" /\ answered.body.date = NoDate)
         => answered.resp.code = 400
    /\ \A c \in Conns : ~(inflight[c].kind = "slots" /\ inflight[c].body.date = NoDate)

-----------------------------------------------------------------------------
(* The slot list by status (SpecListing) *)

\* The three bookings of SeedSlots, each in any of the statuses that status
\* updates give it.
InitListing ==
    /\ build \in Builds
    /\ env = [ownerPhone |-> P_Owner, metaPhoneId |-> TRUE,
            adminUser |-> Str(U_admin), adminPass |-> Str(W_secret)]
    /\ clock = EarlyClock
    /\ services = SeedServices
    /\ nextServiceId = 2
    /\ holidays = {}
    /\ nextHolidayId = 1
    /\ \E st \in [1..Len(SeedSlots) -> BookingStatuses] :
          bookings = [i \in 1..Len(SeedSlots) |-> [SeedSlots[i] EXCEPT !.status = st[i]]]
    /\ inflight = [c \in Conns |-> Idle]
    /\ answered = Idle
    /\ prev = NoPrev

\* The queries read the store and change nothing: they arrive one after the
\* other, between the changes of the calendar.
ListingConns == {1}

NextListing ==
    \/ /\ \E c \in ListingConns, d \in SlotDates, fault \in BOOLEAN : GetSlots(c, d, fault)
       /\ UNCHANGED prev
    \/ /\ \E c \in ListingConns, fault \in BOOLEAN : GetSlotsBookings(c, fault)
       /\ UNCHANGED prev
    \/ /\ \E h \in HolidayBodies : PostHolidays(h)
       /\ UNCHANGED prev
    \/ /\ \E id \in 1..MaxHolidays : DeleteHolidays(id)
       /\ UNCHANGED prev

SpecListing == InitListing /\ [][NextListing]_vars

\* The bookings of a date, of any status but Declined.
Occupying(date) ==
    {i \in 1..Len(bookings) :
        /\ SubSeq(bookings[i].date_time, 1, 10) = date
        /\ bookings[i].status # "Declined"}

\* C13 (SpecListing): an availability query that arrives when no holiday
\* record exists for its date goes on to read the bookings (unless its lookup
\* fails), and when that read succeeds it is answered Open with a list that
\* has, for each time, as many entries as there are bookings of that date and
\* time whose status is not Declined, and no entry besides these.
C13_OpenListsOccupied ==
    [][ /\ \A d \in SlotDates \ {NoDate} :
             (~HolidayOn(d) /\ Answers /\ answered'.kind = "slots"
                /\ answered'.body.date = d /\ inflight' = inflight)
                 => answered'.resp.code = 500
        /\ \A c \in Conns :
             (inflight[c].kind = "slots" /\ inflight[c].pc = "bookings" /\ Leaves(c)
                /\ answered'.resp.code = 200)
                 => /\ answered'.resp.status = "Open"
                    /\ Len(answered'.resp.data)
                         = Cardinality(Occupying(inflight[c].body.date))
                    /\ \A t \in {T_1000, T_1100} :
                         Cardinality(Entries(answered'.resp.data, t))
                             = Cardinality(Holders(inflight[c].body.date, t))
      ]_vars

\* The bookings of June 1st stand Completed and No-Show, and the list of that
\* day holds both times.
C13_Witness ==
    /\ answered.kind = "slots"
    /\ answered.body.date = D_Jun01
    /\ answered.resp.code = 200
    /\ answered.resp.status = "Open"
    /\ answered.resp.data = <<T_1000, T_1100>>
    /\ bookings[1].status = "Completed"
    /\ bookings[2].status = "No-Show"

-----------------------------------------------------------------------------
(* Claims on the history of the statistics (SpecStats) *)

\* The months of the Completed bookings, as year and month of their date.
CompletedMonths ==
    {SubSeq(bookings[i].date_time, 1, 7) :
        i \in {j \in 1..Len(bookings) : bookings[j].status = "Completed"}}

\* The months since year 0 of a key YYYY-MM.
MonthNumber(key) == 12 * parseInt(SubSeq(key, 1, 4)) + parseInt(SubSeq(key, 6, 7))

\* C14 (SpecStats): the history that a stats request computes has the months
\* of the Completed bookings of the store its revenue query reads, no other
\* month, and its entries are in strictly descending order of month, so that
\* no month is listed twice.
C14_HistoryMonthsDescending ==
    [][ \A c \in Conns :
          (Free(c) /\ inflight'[c].kind = "stats")
            => LET h == inflight'[c].loc.history
               IN  /\ {h[k].month : k \in 1..Len(h)} = CompletedMonths
                   /\ \A k \in 1..(Len(h) - 1) :
                        MonthNumber(h[k].month) > MonthNumber(h[k + 1].month)
      ]_vars

\* The store holds Completed bookings of June and of December, and the
\* history answered lists December before June.
C14_Witness ==
    /\ answered.kind = "stats"
    /\ answered.resp.code = 200
    /\ Len(answered.resp.history) = 2
    /\ answered.resp.history[1].month = SubSeq(D_Dec25, 1, 7)
    /\ answered.resp.history[2].month = SubSeq(D_Jun01, 1, 7)
    /\ Len(bookings) = 2
    /\ bookings[1].date_time = dateTime(D_Jun01, T_1000)
    /\ bookings[2].date_time = dateTime(D_Dec25, T_1000)

-----------------------------------------------------------------------------
(* Claims on the life of a booking (SpecStatus) *)

TerminalStatuses == {"Declined", "Completed", "No-Show"}

\* C15: a booking whose status is Declined, Completed or No-Show keeps that
\* status in every step.
C15_TerminalStays ==
    [][ \A i \in 1..Len(bookings) :
          bookings[i].status \in TerminalStatuses
            => bookings'[i].status = bookings[i].status
      ]_vars

-----------------------------------------------------------------------------
(* Admin login (SpecLogin) *)

\* The deployments with both secrets set, with one of them, and with none.
LoginEnvs ==
    {[ownerPhone |-> P_Owner, metaPhoneId |-> TRUE, adminUser |-> u, adminPass |-> w] :
        u \in {Str(U_admin), Undefined}, w \in {Str(W_secret), Undefined}}

LoginBodies ==
    {[username |-> u, password |-> w] :
        u \in {Str(U_admin), Str(U_guest), Str(<<>>), Undefined},
        w \in {Str(W_secret), Str(W_wrong), Str(<<>>), Undefined}}

InitLogin ==
    /\ build \in Builds
    /\ env \in LoginEnvs
    /\ clock = EarlyClock
    /\ services = SeedServices
    /\ nextServiceId = 2
    /\ holidays = {}
    /\ nextHolidayId = 1
    /\ bookings = <<>>
    /\ inflight = [c \in Conns |-> Idle]
    /\ answered = Idle
    /\ prev = NoPrev

NextLogin ==
    \/ /\ \E c \in Conns, b \in LoginBodies : PostAdminLogin(c, b)
       /\ UNCHANGED prev

SpecLogin == InitLogin /\ [][NextLogin]_vars

\* C16 (SpecLogin): a login request whose username is the value of
\* ADMIN_USERNAME and whose password is the value of ADMIN_PASSWORD (in the
\* sense of ===) is answered 200 with success and the token; every other
\* login request is answered 401 with success false and no token.
C16_LoginOnlyOnMatch ==
    answered.kind = "login"
      => IF /\ answered.body.username = env.adminUser
            /\ answered.body.password = env.adminPass
         THEN /\ answered.resp.code = 200
              /\ answered.resp.success
              /\ answered.resp.token \in {"session", "secure-session-token"}
         ELSE /\ answered.resp.code = 401
              /\ ~answered.resp.success
              /\ "token" \notin DOMAIN answered.resp

\* The right username with a wrong password was rejected.
C16_Witness ==
    /\ answered.kind = "login"
    /\ env.adminUser = Str(U_admin)
    /\ env.adminPass = Str(W_secret)
    /\ answered.body = [username |-> Str(U_admin), password |-> Str(W_wrong)]
    /\ answered.resp.code = 401

-----------------------------------------------------------------------------
(* Concurrent creations (SpecBooking) *)

\* The request on connection c has passed its holiday check and has its
\* INSERT to come.
AwaitsInsert(c) == inflight[c].kind = "create" /\ inflight[c].pc = "insert"

SameSlot(r, q) == r.body.date = q.body.date /\ r.body.time = q.body.time

\* The request on connection c runs its INSERT and the store accepts it.
Inserts(c) ==
    /\ AwaitsInsert(c)
    /\ inflight'[c] # inflight[c]
    /\ answered'.resp.code # 500

\* C18 (SpecBooking): the INSERT of a creation request that has passed its
\* holiday check appends the request's row, as a Pending booking of its date
\* and time, also when another creation request for the same date and time
\* has passed its check and waits for its own INSERT (which stays to come),
\* and also when a booking that is not Declined holds that date and time.
C18_InsertsNotSerialized ==
    [][ \A c \in Conns :
          Inserts(c)
            => /\ Len(bookings') = Len(bookings) + 1
               /\ SubSeq(bookings', 1, Len(bookings)) = bookings
               /\ bookings'[Len(bookings')].date_time
                    = dateTime(inflight[c].body.date, inflight[c].body.time)
               /\ bookings'[Len(bookings')].status = "Pending"
               /\ \A d \in Conns \ {c} :
                    (AwaitsInsert(d) /\ SameSlot(inflight[c], inflight[d]))
                        => inflight'[d] = inflight[d]
      ]_vars

\* Two creation requests for the same date and time are in flight, each with
\* its row inserted: the store holds two Pending bookings of one date_time.
C18_Witness ==
    /\ Len(bookings) = 2
    /\ bookings[1].date_time = bookings[2].date_time
    /\ bookings[1].status # "Declined"
    /\ bookings[2].status # "Declined"
    /\ \E c \in Conns, d \in Conns :
          /\ c # d
          /\ inflight[c].kind = "create" /\ inflight[c].pc = "notify"
          /\ inflight[d].kind = "create" /\ inflight[d].pc = "notify"
          /\ inflight[c].loc.id = 1
          /\ inflight[d].loc.id = 2
          /\ SameSlot(inflight[c], inflight[d])

-----------------------------------------------------------------------------
(* Reschedules and status updates (SpecEdit) *)

EditStatusRequests ==
    {[id |-> 1, status |-> "Confirmed"], [id |-> 2, status |-> "Completed"],
     [id |-> 2, status |-> "No-Show"], [id |-> Len(SeedBookings) + 1, status |-> "Declined"]}

\* The online booking, the walk-in, and an id that no booking has.
EditIds == 1..(Len(SeedBookings) + 1)

InitEdit ==
    /\ build \in Builds
    /\ env = [ownerPhone |-> P_Owner, metaPhoneId |-> TRUE,
            adminUser |-> Str(U_admin), adminPass |-> Str(W_secret)]
    /\ clock = EarlyClock
    /\ services = SeedServices
    /\ nextServiceId = 2
    /\ holidays = {}
    /\ nextHolidayId = 1
    /\ bookings = SeedBookings
    /\ inflight = [c \in Conns |-> Idle]
    /\ answered = Idle
    /\ prev = NoPrev

NextEdit ==
    \/ /\ \E c \in Conns, q \in EditStatusRequests, fault \in BOOLEAN :
             PutBookingStatus(c, q.id, q.status, fault)
       /\ UNCHANGED prev
    \/ /\ \E c \in Conns, fault \in BOOLEAN : PutBookingStatusSelect(c, fault)
       /\ UNCHANGED prev
    \/ /\ \E c \in Conns, ok \in BOOLEAN : PutBookingStatusNotify(c, ok)
       /\ UNCHANGED prev
    \/ /\ \E c \in Conns, id \in EditIds, b \in RescheduleBodies, fault \in BOOLEAN :
             PutBookingUpdate(c, id, b, fault)
       /\ UNCHANGED prev
    \/ /\ \E c \in Conns, fault \in BOOLEAN : PutBookingUpdateSelect(c, fault)
       /\ UNCHANGED prev
    \/ /\ \E c \in Conns, ok \in BOOLEAN : PutBookingUpdateNotify(c, ok)
       /\ UNCHANGED prev

SpecEdit == InitEdit /\ [][NextEdit]_vars

\* The bookings after the UPDATE of a reschedule with body b: the addressed
\* booking has the name, the service and the date and time of the request,
\* and nothing else differs.
Overwritten(b) ==
    /\ Len(bookings') = Len(bookings)
    /\ \A i \in 1..Len(bookings) :
          IF i = b.id
          THEN /\ bookings'[i].customer_name = b.name
               /\ bookings'[i].service_name = b.service
               /\ bookings'[i].date_time = b.date \o <<" ", "a", "t", " ">> \o b.time
               /\ bookings'[i].status = bookings[i].status
               /\ bookings'[i].type = bookings[i].type
               /\ bookings'[i].customer_phone = bookings[i].customer_phone
               /\ bookings'[i].shop_id = bookings[i].shop_id
          ELSE bookings'[i] = bookings[i]

\* C19 (SpecEdit): the first step of a reschedule whose UPDATE succeeds
\* overwrites customer_name, service_name and date_time of the addressed
\* booking and leaves its status, type and customer_phone and every other
\* booking as they are; a reschedule whose UPDATE fails, and the later steps
\* of a reschedule, change no booking.
C19_RescheduleOverwritesThree ==
    [][ /\ \A c \in Conns :
             (Free(c) /\ inflight'[c].kind = "update") => Overwritten(inflight'[c].body)
        /\ \A c \in Conns :
             (inflight[c].kind = "update" /\ inflight'[c] # inflight[c])
                 => bookings' = bookings
        /\ (Answers /\ answered'.kind = "update" /\ inflight' = inflight)
             => bookings' = bookings
      ]_vars

\* The online booking was confirmed and then rescheduled: it has the new
\* name, service and time, and is still Confirmed, Online, with its phone.
C19_Witness ==
    /\ answered.kind = "update"
    /\ answered.resp.code = 200
    /\ answered.body.id = 1
    /\ bookings[1].customer_name = N_Ravi
    /\ bookings[1].service_name = Sv_Shave
    /\ bookings[1].date_time = dateTime(D_Dec25, T_1100)
    /\ bookings[1].status = "Confirmed"
    /\ bookings[1].type = "Online"
    /\ bookings[1].customer_phone = P_Asha
    /\ bookings[2] = SeedBookings[2]

\* C20 (SpecEdit): a status update or a reschedule of a walk-in booking is
\* answered without any invocation of the notification helper, and every
\* invocation that a status update or a reschedule makes is for the
\* customer_phone of the booking it addresses, which is of type Online.
C20_WalkinNeverNotified ==
    answered.kind \in {"status", "update"}
      => /\ (answered.body.id \in 1..Len(bookings)
               /\ bookings[answered.body.id].type = "Walk-in")
              => answered.calls = <<>> /\ answered.posts = <<>>
         /\ answered.calls # <<>>
              => /\ answered.body.id \in 1..Len(bookings)
                 /\ bookings[answered.body.id].type = "Online"
                 /\ \A k \in 1..Len(answered.calls) :
                      answered.calls[k].to = bookings[answered.body.id].customer_phone

\* The walk-in was rescheduled with success and nothing was sent.
C20_Witness ==
    /\ answered.kind = "update"
    /\ answered.resp.code = 200
    /\ answered.body.id = 2
    /\ bookings[2].type = "Walk-in"
    /\ bookings[2].date_time = dateTime(D_Dec25, T_1100)
    /\ bookings[2].customer_name = N_Ravi
    /\ bookings[2].service_name = Sv_Shave
    /\ answered.calls = <<>>

-----------------------------------------------------------------------------
(* Reschedules and the holiday calendar (SpecMove) *)

\* A reschedule to the holiday and one to an ordinary day.
MoveBodies ==
    RescheduleBodies
        \cup {[name |-> N_Asha, service |-> Sv_Haircut, date |-> D_Jun01, time |-> T_1100]}

\* The reschedules arrive one after the other, between the changes of the
\* calendar.
MoveConns == {1}

NextMove ==
    \/ /\ \E c \in MoveConns, id \in EditIds, b \in MoveBodies, fault \in BOOLEAN :
             PutBookingUpdate(c, id, b, fault)
       /\ UNCHANGED prev
    \/ /\ \E c \in MoveConns, fault \in BOOLEAN : PutBookingUpdateSelect(c, fault)
       /\ UNCHANGED prev
    \/ /\ \E c \in MoveConns, ok \in BOOLEAN : PutBookingUpdateNotify(c, ok)
       /\ UNCHANGED prev
    \/ /\ \E h \in HolidayBodies : PostHolidays(h)
       /\ UNCHANGED prev
    \/ /\ \E id \in 1..MaxHolidays : DeleteHolidays(id)
       /\ UNCHANGED prev

SpecMove == InitEdit /\ [][NextMove]_vars

\* C21 (SpecMove): a reschedule is refused on no ground but a storage error:
\* the step in which it arrives answers it only with 500; when it arrives
\* for a booking while a Closed holiday record exists for its new date, its
\* UPDATE stores the new date_time and leaves the status; and a reschedule
\* that is answered after its UPDATE, without a storage error, is answered
\* with success.
C21_RescheduleIgnoresHolidays ==
    [][ /\ (Answers /\ answered'.kind = "update" /\ inflight' = inflight)
             => answered'.resp.code = 500
        /\ \A c \in Conns :
             (Free(c) /\ inflight'[c].kind = "update"
                /\ inflight'[c].body.id \in 1..Len(bookings)
                /\ ClosedOn(inflight'[c].body.date))
                 => LET b == inflight'[c].body
                    IN  /\ bookings'[b.id].date_time
                             = b.date \o <<" ", "a", "t", " ">> \o b.time
                        /\ bookings'[b.id].status = bookings[b.id].status
        /\ \A c \in Conns :
             (inflight[c].kind = "update" /\ Leaves(c) /\ answered'.resp.code # 500)
                 => /\ answered'.resp.code = 200
                    /\ answered'.resp.message \in {"Booking updated successfully",
                                                   "Updated"}
      ]_vars

\* December 25th is Closed, and the Pending online booking has just been
\* moved to it with success.
C21_Witness ==
    /\ answered.kind = "update"
    /\ answered.resp.code = 200
    /\ answered.body.id = 1
    /\ answered.body.date = D_Dec25
    /\ ClosedOn(D_Dec25)
    /\ bookings[1].date_time = dateTime(D_Dec25, T_1100)
    /\ bookings[1].status = "Pending"
    /\ bookings[1].type = "Online"

-----------------------------------------------------------------------------
(* Claims on the current month of the statistics (SpecStats) *)

\* The month key YYYY-MM of today, by the calendar of the shop.
ShopMonth ==
    NumToStr(clock.local.y) \o <<"-">>
        \o (IF clock.local.m < 10 THEN <<"0">> ELSE <<>>) \o NumToStr(clock.local.m)

\* C22: the revenue that a stats request answers with is the revenue of the
\* entry of its history whose month is today's month, and 0 when the history
\* has no entry of that month.
C22_RevenueIsTodaysMonth ==
    (answered.kind = "stats" /\ answered.resp.code = 200)
        => LET h == answered.resp.history
               mine == {k \in 1..Len(h) : h[k].month = ShopMonth}
           IN  IF mine = {} THEN answered.resp.revenue = 0
               ELSE \A k \in mine : answered.resp.revenue = h[k].revenue

-----------------------------------------------------------------------------
(* Concurrent status updates of one booking (SpecStatus) *)

\* C23 as stated: when no request is in flight any more, the notification of
\* the status update answered last is the one of the booking's stored status.
C23_LastNotificationMatchesStored ==
    (/\ answered.kind = "status"
     /\ answered.calls # <<>>
     /\ \A c \in Conns : inflight[c] = Idle)
        => answered.calls[Len(answered.calls)].body.tpl
             = bookings[answered.body.id].status

\* C23, amended: a status update keeps its own requested status from its
\* UPDATE to its answer; the one notification it sends is the message of that
\* status, whatever status the booking has in the store when the booking is
\* read back and when the message is sent; and the step that sends it
\* changes no booking, so that the stored status stays the one of the UPDATE
\* that ran last.
C23_NotificationOfOwnStatus ==
    [][ \A c \in Conns :
          /\ (inflight[c].kind = "status" /\ inflight'[c].kind = "status")
                => inflight'[c].body = inflight[c].body
          /\ (inflight[c].kind = "status" /\ Leaves(c))
                => /\ answered'.body = inflight[c].body
                   /\ bookings' = bookings
                   /\ inflight[c].pc = "notify"
                        => /\ Len(answered'.calls) = 1
                           /\ answered'.calls[1].body.tpl = inflight[c].body.status
      ]_vars

\* Both updates of the online booking are answered; the one answered last
\* sent the message of Confirmed, and the booking stands Declined.
C23_Witness ==
    /\ answered.kind = "status"
    /\ answered.body = [id |-> 1, status |-> "Confirmed"]
    /\ Len(answered.calls) = 1
    /\ answered.calls[1].body.tpl = "Confirmed"
    /\ bookings[1].status = "Declined"
    /\ \A c \in Conns : inflight[c] = Idle

-----------------------------------------------------------------------------
(* Creation against changes of the calendar (SpecBooking) *)

\* C24 as stated: no INSERT of a creation request stores a booking of a date
\* for which a Closed holiday record exists at the moment of the INSERT.
C24_InsertNeverOnClosedDate ==
    [][ \A c \in Conns :
          Inserts(c) => ~ClosedOn(inflight[c].body.date)
      ]_vars

\* C24, amended: the holiday lookup and the INSERT of a creation are two
\* steps. A request passes its lookup only when no Closed holiday record
\* exists for its date at that moment; once it has passed, its INSERT (when
\* the store accepts it) appends its Pending row whatever the calendar holds
\* by then, and the requests that have passed their lookup are untouched by
\* the creation and the removal of holidays.
C24_CheckThenInsert ==
    [][ /\ \A c \in Conns :
             (Free(c) /\ inflight'[c].kind = "create")
                 => /\ ~ClosedOn(inflight'[c].body.date)
                    /\ bookings' = bookings
        /\ \A c \in Conns :
             Inserts(c)
                 => /\ Len(bookings') = Len(bookings) + 1
                    /\ bookings'[Len(bookings')].date_time
                         = inflight[c].body.date \o <<" ", "a", "t", " ">>
                             \o inflight[c].body.time
                    /\ bookings'[Len(bookings')].status = "Pending"
        /\ holidays' # holidays => inflight' = inflight
      ]_vars

\* A creation for December 25th passed its lookup, the date was then set
\* Closed, and the INSERT stored the Pending booking on the Closed date: with
\* no owner number to notify, the request is answered by its INSERT.
C24_Witness ==
    /\ answered.kind = "create"
    /\ env.ownerPhone = <<>>
    /\ answered.resp.code = 200
    /\ answered.body.date = D_Dec25
    /\ ClosedOn(D_Dec25)
    /\ bookings[answered.loc.id].date_time = dateTime(D_Dec25, T_1000)
    /\ bookings[answered.loc.id].status = "Pending"
    /\ bookings[answered.loc.id].type = "Online"

-----------------------------------------------------------------------------
(* Requests for a booking that does not exist (SpecEdit) *)

\* The request r is a status update or a reschedule for an id that no
\* booking has.
Unaddressed(r) ==
    /\ r.kind \in {"status", "update"}
    /\ r.body.id \notin 1..Len(bookings)

\* C25 (SpecEdit): a status update or a reschedule for an id that no booking
\* has changes no booking in the step of its UPDATE nor in the step that
\* reads the booking back; that second step answers it, without any
\* invocation of the notification helper, and with the success response
\* unless the read fails.
C25_MissingIdIsSilentSuccess ==
    [][ \A c \in Conns :
          /\ (Free(c) /\ Unaddressed(inflight'[c])) => bookings' = bookings
          /\ (Unaddressed(inflight[c]) /\ inflight'[c] # inflight[c])
                => /\ bookings' = bookings
                   /\ Leaves(c)
                   /\ answered'.body = inflight[c].body
                   /\ answered'.calls = <<>>
                   /\ answered'.posts = <<>>
                   /\ answered'.resp.code \in {200, 500}
                   /\ answered'.resp.code = 200
                        => answered'.resp.message
                             = IF inflight[c].kind = "status"
                               THEN (IF build = "partB" THEN "Updated"
                                     ELSE "Status Updated")
                               ELSE (IF build = "server"
                                     THEN "Booking updated successfully"
                                     ELSE "Updated")
      ]_vars

\* A status update for an id that no booking has was answered with success,
\* nothing was sent, and the store holds its two bookings as before.
C25_Witness ==
    /\ answered.kind = "status"
    /\ answered.body.id = Len(SeedBookings) + 1
    /\ answered.resp.code = 200
    /\ answered.calls = <<>>
    /\ bookings = SeedBookings

-----------------------------------------------------------------------------
(* Availability and creation on holidays (SpecAgree) *)

\* The requests arrive one after the other, between the changes of the
\* calendar.
AgreeConns == {1}

\* The availability query answered last is kept with its answer.
RecordSlots ==
    prev' = IF answered'.kind = "slots"
            THEN [req |-> answered', bookings |-> bookings']
            ELSE prev

NextAgree ==
    \/ /\ \E c \in AgreeConns, d \in SlotDates, fault \in BOOLEAN : GetSlots(c, d, fault)
       /\ RecordSlots
    \/ /\ \E c \in AgreeConns, fault \in BOOLEAN : GetSlotsBookings(c, fault)
       /\ RecordSlots
    \/ /\ \E c \in AgreeConns, b \in CreateBodies, fault \in BOOLEAN :
             PostBookings(c, b, fault)
       /\ RecordSlots
    \/ /\ \E c \in AgreeConns : PostBookingsPrice(c, FALSE)
       /\ RecordSlots
    \/ /\ \E c \in AgreeConns : PostBookingsInsert(c, FALSE)
       /\ RecordSlots
    \/ /\ \E c \in AgreeConns : PostBookingsNotify(c, TRUE)
       /\ RecordSlots
    \/ /\ \E h \in HolidayBodies : PostHolidays(h)
       /\ RecordSlots
    \/ /\ \E id \in 1..MaxHolidays : DeleteHolidays(id)
       /\ RecordSlots

SpecAgree == InitBooking /\ [][NextAgree]_vars

\* The availability query of a date has just been answered with a holiday
\* status and an empty slot list, and this step is the holiday lookup of a
\* creation for that date on connection c, which does not fail.
CreateAfterHolidayAnswer(c) ==
    /\ answered.kind = "slots"
    /\ answered.resp.code = 200
    /\ answered.resp.status # "Open"
    /\ answered.resp.data = <<>>
    /\ Free(c)
    /\ \/ inflight'[c].kind = "create" /\ inflight'[c].body.date = answered.body.date
       \/ /\ CreateEndsAtLookup
          /\ answered'.body.date = answered.body.date
          /\ answered'.resp.code # 500

\* C26 as stated: a creation whose holiday lookup runs on the calendar on
\* which the availability query of its date was answered with a holiday
\* status and an empty slot list is rejected.
C26_HolidayAnswerRejectsCreation ==
    [][ \A c \in Conns :
          CreateAfterHolidayAnswer(c)
            => /\ inflight'[c] = Idle
               /\ answered'.resp.code = 400
      ]_vars

\* C26, amended: such a creation is rejected, with 400 and no insert, when
\* the holiday status answered is Closed; when the date has no Closed
\* record (the status answered is another one, such as Limited) the creation
\* passes its lookup and goes on to its insert.
C26_AgreeOnClosedOnly ==
    [][ \A c \in Conns :
          CreateAfterHolidayAnswer(c)
            => /\ answered.resp.status = "Closed"
                    => /\ inflight'[c] = Idle
                       /\ answered'.resp.code = 400
                       /\ bookings' = bookings
               /\ ~ClosedOn(answered.body.date)
                    => /\ answered.resp.status # "Closed"
                       /\ inflight'[c].kind = "create"
                       /\ inflight'[c].pc \in {"price", "insert"}
      ]_vars

\* The availability query of December 25th was answered Limited with no
\* slot, the Limited record is still the calendar's, and a creation for that
\* date was answered with success: its Pending booking is in the store.
C26_Witness ==
    /\ prev.req.kind = "slots"
    /\ prev.req.body.date = D_Dec25
    /\ prev.req.resp.code = 200
    /\ prev.req.resp.status = "Limited"
    /\ prev.req.resp.data = <<>>
    /\ \E h \in holidays : h.date = D_Dec25 /\ h.status = "Limited"
    /\ answered.kind = "create"
    /\ answered.body.date = D_Dec25
    /\ answered.resp.code = 200
    /\ bookings[answered.loc.id].date_time = dateTime(D_Dec25, T_1000)
    /\ bookings[answered.loc.id].status = "Pending"

-----------------------------------------------------------------------------
(* Login without credentials (SpecLogin) *)

\* C27: a login request that has neither a username nor a password is
\* answered 401, whatever the environment sets.
C27_OmittedCredentialsRejected ==
    (/\ answered.kind = "login"
     /\ answered.body.username = Undefined
     /\ answered.body.password = Undefined)
        => /\ answered.resp.code = 401
           /\ ~answered.resp.success

=============================================================================
